---- MODULE Spec2Model ----
(***************************************************************************)
(* Path tracer (ray_tracer/pathTracing.cpp, ray_tracer/utils.h).           *)
(*                                                                         *)
(* Doubles are modelled as exact rationals <<n, d>> (d > 0, lowest terms). *)
(* Geometry is modelled by what the code reads from it: a ray is the       *)
(* vector of values that Primitive::Intersect returns for it on every      *)
(* primitive of the active list plus the value LightSource.Intersect       *)
(* returns; dot products and cosines the code computes from unit vectors   *)
(* are inputs drawn from small grids.                                      *)
(***************************************************************************)
EXTENDS Integers, Naturals, Sequences, FiniteSets, TLC

\* ------------------------------------------------------------------ bounds
\* number of distinct finite hit distances a ray can report
MaxDist == 2
\* frames of the Radiance recursion kept (innermost ones)
MaxStack == 2
\* rand() returns 0..RAND_MAX
RAND_MAX == 4
\* primitives in the lists handed to the scene query of SpecQuery
MaxPrims == 3
\* largest coordinate of the sphere test, in units of eps / 2
MaxB == 8
\* plane points tested against a triangle: p0 + (i/2) a + (j/2) b, i, j <= MaxLam
MaxLam == 3
\* image dimensions (main: 1024 x 768)
width == 2
height == 2
\* samples per subpixel (50 in the source)
nbSamples == 2
MaxFrames == 2
MaxEvents == 2

\* -------------------------------------------------------------- rationals
RECURSIVE GCD(_, _)
GCD(a, b) == IF b = 0 THEN a ELSE GCD(b, a % b)

Abs(n) == IF n < 0 THEN -n ELSE n

Norm(n, d) ==
  LET g == GCD(Abs(n), Abs(d))
      s == IF d < 0 THEN -1 ELSE 1
  IN  IF n = 0 THEN <<0, 1>> ELSE <<s * (n \div g), s * (d \div g)>>

R(n) == <<n, 1>>
Frac(n, d) == Norm(n, d)
\* sums are taken over the least common denominator
RAdd(a, b) ==
  LET g == GCD(a[2], b[2])
  IN  Norm(a[1] * (b[2] \div g) + b[1] * (a[2] \div g), (a[2] \div g) * b[2])
RSub(a, b) == RAdd(a, <<0 - b[1], b[2]>>)
RMul(a, b) == Norm(a[1] * b[1], a[2] * b[2])
RDiv(a, b) == Norm(a[1] * b[2], a[2] * b[1])
\* products and quotients that cancel common factors before multiplying
RMulC(a, b) ==
  LET g1 == GCD(Abs(a[1]), Abs(b[2]))
      g2 == GCD(Abs(b[1]), Abs(a[2]))
  IN  IF a[1] = 0 \/ b[1] = 0 THEN <<0, 1>>
      ELSE Norm((a[1] \div g1) * (b[1] \div g2), (a[2] \div g2) * (b[2] \div g1))
RDivC(a, b) == RMulC(a, IF b[1] < 0 THEN <<0 - b[2], 0 - b[1]>> ELSE <<b[2], b[1]>>)
RLt(a, b) == a[1] * b[2] < b[1] * a[2]
RLe(a, b) == a[1] * b[2] <= b[1] * a[2]
RMax(a, b) == IF RLt(a, b) THEN b ELSE a

eps == Frac(1, 10000)
\* lengths on a grid of step eps / 2
HalfEps(k) == Frac(k, 20000)

\* ------------------------------------------------------- Vector (utils.h)
Vector(x, y, z) == <<x, y, z>>
VAdd(a, b) == <<RAdd(a[1], b[1]), RAdd(a[2], b[2]), RAdd(a[3], b[3])>>
VSub(a, b) == <<RSub(a[1], b[1]), RSub(a[2], b[2]), RSub(a[3], b[3])>>
Dot(a, b) == RAdd(RAdd(RMul(a[1], b[1]), RMul(a[2], b[2])), RMul(a[3], b[3]))
VScale(a, c) == <<RMul(a[1], c), RMul(a[2], c), RMul(a[3], c)>>
MultComponents(a, b) == <<RMul(a[1], b[1]), RMul(a[2], b[2]), RMul(a[3], b[3])>>
Max(v) == RMax(v[3], RMax(v[1], v[2]))

Zero == Vector(R(0), R(0), R(0))
\* a background that is not black
BackgroundGrey == Vector(Frac(1, 2), Frac(1, 2), Frac(1, 2))
BackgroundColor == Vector(R(0), R(0), R(0))

\* ------------------------------------------------------------- the scene
Sphere(emission_, color_, refl_) ==
  [emission |-> emission_, color |-> color_, refl |-> refl_]

\* a triangle of glass
TriangleGlass(emission_, color_) ==
  [emission |-> emission_, color |-> color_, refl |-> "REFR"]

Triangle(emission_, color_) ==
  [emission |-> emission_, color |-> color_, refl |-> "DIFF"]

Grey == Vector(Frac(3, 4), Frac(3, 4), Frac(3, 4))
Red == Vector(Frac(3, 4), Frac(1, 4), Frac(1, 4))
Blue == Vector(Frac(1, 4), Frac(1, 4), Frac(3, 4))
Green == Vector(R(0), R(1), R(0))
Glossy == VScale(Vector(R(1), R(1), R(1)), Frac(999, 1000))

spheres ==
  << Sphere(Zero, Red, "DIFF"),     \* left wall
     Sphere(Zero, Blue, "DIFF"),    \* right wall
     Sphere(Zero, Grey, "DIFF"),    \* back wall
     Sphere(Zero, Zero, "DIFF"),    \* front wall
     Sphere(Zero, Grey, "DIFF"),    \* floor
     Sphere(Zero, Grey, "DIFF"),    \* ceiling
     Sphere(Zero, Glossy, "SPEC"),  \* mirror sphere
     Sphere(Zero, Glossy, "REFR")   \* glass sphere
  >>

LightSource ==
  Sphere(VScale(Vector(R(4), R(4), R(4)), R(100)), Zero, "DIFF")

triangles ==
  << Triangle(Zero, Grey), Triangle(Zero, Grey),     \* back
     Triangle(Zero, Grey), Triangle(Zero, Grey),     \* bottom
     Triangle(Zero, Grey), Triangle(Zero, Grey),     \* top
     Triangle(Zero, Red), Triangle(Zero, Red),       \* left
     Triangle(Zero, Blue), Triangle(Zero, Blue),     \* right
     Triangle(Zero, Green), Triangle(Zero, Green),   \* front
     Triangle(Zero, Grey), Triangle(Zero, Grey),     \* cuboid right
     Triangle(Zero, Grey), Triangle(Zero, Grey),     \* cuboid left
     Triangle(Zero, Grey), Triangle(Zero, Grey),     \* cuboid front
     Triangle(Zero, Grey), Triangle(Zero, Grey),     \* cuboid back
     Triangle(Zero, Grey), Triangle(Zero, Grey)      \* cuboid top
  >>

\* ------------------------------------------------- intersection distances
\* Values Intersect can return, on an ordered scale: 0 is the "no hit"
\* return 0.0, 1..MaxDist are finite hits (> eps), tInf stands for 1e20,
\* tInf + 1 for a value above it (a plane hit of an almost parallel ray),
\* NaN for the quotient 0/0 of Triangle::Intersect.
NaN == 0 - 1
tInf == MaxDist + 1
FiniteHits == 1..MaxDist
Returned == {NaN} \cup (0..(tInf + 1))

\* double comparison: every comparison with NaN is false
FLt(a, b) == a # NaN /\ b # NaN /\ a < b
FGt(a, b) == FLt(b, a)

\* the for loop of IntersectSpheres / IntersectTriangles from index i on;
\* ds[i] is what primitive i-1 returns for the ray
RECURSIVE ScanSpheres(_, _, _, _)
ScanSpheres(ds, i, t, id) ==
  IF i > Len(ds) THEN [t |-> t, id |-> id]
  ELSE IF FGt(ds[i], 0) /\ FLt(ds[i], t)
       THEN ScanSpheres(ds, i + 1, ds[i], i - 1)
       ELSE ScanSpheres(ds, i + 1, t, id)

IntersectSpheres(ds, id) ==
  LET r == ScanSpheres(ds, 1, tInf, id)
  IN  [found |-> FLt(r.t, tInf), t |-> r.t, id |-> r.id]

\* the scan keeping the last of several primitives at the same distance
RECURSIVE ScanKeepLast(_, _, _, _)
ScanKeepLast(ds, i, t, id) ==
  IF i > Len(ds) THEN [t |-> t, id |-> id]
  ELSE IF FGt(ds[i], 0) /\ (FLt(ds[i], t) \/ (ds[i] = t /\ t # tInf))
       THEN ScanKeepLast(ds, i + 1, ds[i], i - 1)
       ELSE ScanKeepLast(ds, i + 1, t, id)

RECURSIVE ScanTriangles(_, _, _, _)
ScanTriangles(ds, i, t, id) ==
  IF i > Len(ds) THEN [t |-> t, id |-> id]
  ELSE IF FGt(ds[i], 0) /\ FLt(ds[i], t)
       THEN ScanTriangles(ds, i + 1, ds[i], i - 1)
       ELSE ScanTriangles(ds, i + 1, t, id)

IntersectTriangles(ds, id) ==
  LET r == ScanTriangles(ds, 1, tInf, id)
  IN  [found |-> FLt(r.t, tInf), t |-> r.t, id |-> r.id]

IntersectLightSource(d) == FGt(d, 0)


\* --------------------------------------------------------------- constants
maxDepth == 5

\* _depth is compared with maxDepth and with 3 only: the values above
\* maxDepth are kept as one
DepthCap == maxDepth + 1
Incr(depth) == IF depth < DepthCap THEN depth + 1 ELSE DepthCap

nc == R(1)
nt == Frac(3, 2)

\* the draw taken over RAND_MAX + 1
normRandBelow(r) == Frac(r, RAND_MAX + 1)

\* the draw taken over rand() + 1
normRandAbove(r) == Frac(r + 1, RAND_MAX)

\* returns a random double in the [0; 1] range
normRand(r) == Frac(r, RAND_MAX)

\* ------------------------------------------------------------------- state
VARIABLES
  useTriangles,  \* the scene geometry to render (compile-time flag)
  stack,         \* the innermost Radiance invocations, outermost first
  obs,           \* what the last step read and decided
  qin, qout,     \* argument and result of a scene query (SpecQuery)
  walk,          \* the depth-first walk of one Radiance call tree (FairPath)
  img,           \* Image::pixels, by buffer index
  px,            \* the loops of Render over one pixel (SpecPixel)
  rend,          \* the row and column workers of Render (SpecRender)
  scene          \* spheres, triangles and LightSource

vars == <<useTriangles, stack, obs, qin, qout, walk, img, px, rend, scene>>

\* the list Radiance queries
Scene == IF useTriangles THEN scene.triangles ELSE scene.spheres
\* the scene with the queried list replaced
WithActive(prims) ==
  IF useTriangles THEN [scene EXCEPT !.triangles = prims]
  ELSE [scene EXCEPT !.spheres = prims]

\* Primitive::Primitive()
DefaultPrimitive == [emission |-> Zero, color |-> Zero, refl |-> "DIFF"]
\* the fetch that leaves a moved-from element behind
FetchMoved(prims, id) ==
  [obj |-> prims[id + 1], prims |-> [prims EXCEPT ![id + 1] = DefaultPrimitive]]

\* col and obj copied out of the list element at(id)
Fetch(prims, id) == [obj |-> prims[id + 1], prims |-> prims]

\* A ray: primitive i of the active list (1-based, 0: none) returns d, every
\* other primitive returns 0.0 and the light source returns dl.
\* Primitives with equal emission, color and refl are indistinguishable
\* once hit, so one index per distinct record is enumerated.
Distinct(prims) ==
  {i \in 1..Len(prims) : \A j \in 1..(i - 1) : prims[j] # prims[i]}

Rays(prims) ==
  {[i |-> 0, d |-> 0, dl |-> l] : l \in 0..MaxDist}
  \cup [i : Distinct(prims), d : FiniteHits, dl : 0..MaxDist]

Dists(ray, n) == [k \in 1..n |-> IF k = ray.i THEN ray.d ELSE 0]

\* the light sphere is the first thing on the ray
LightFirst(ray) == ray.dl > 0 /\ (ray.i > 0 => ray.dl < ray.d)

\* A shadow ray: the nearest primitive of the active list on it is at d
\* (0: none), the light source returns dl. The code looks at dl only.
ShadowRays == [d : 0..MaxDist, dl : 0..MaxDist]

\* a primitive of the active scene lies between the origin and the light
Occluded(ray) == ray.dl > 0 /\ ray.d > 0 /\ ray.d < ray.dl

\* l.Dot(nl), cos_a_max, _ray.dir.Dot(nl): values of the grids
LDotNL == {Frac(-1, 2), Frac(1, 2)}
CosAMax == {Frac(799, 800)}
DDN == {R(-1), Frac(-1, 2)}

NewFrame(depth, E) ==
  [depth |-> depth, E |-> E, pc |-> "enter", lightFirst |-> FALSE,
   emission |-> Zero, col |-> Zero, refl |-> "DIFF", e |-> Zero,
   wa |-> R(0), wb |-> R(0), rA |-> Zero,
   val |-> Zero, via |-> "none", id |-> 0]

NoObs ==
  [step |-> "none", engaged |-> FALSE, rnd |-> R(0), p |-> R(0),
   colIn |-> Zero, scaled |-> FALSE, lit |-> FALSE, blocked |-> FALSE,
   ldotnl |-> R(0), tir |-> FALSE, missed |-> FALSE, draws |-> 0,
   calls |-> 0, at |-> 0 - 1]

Top == stack[Len(stack)]
SetTop(f) == [stack EXCEPT ![Len(stack)] = f]

\* a recursive call: the new invocation goes on top; beyond MaxStack
\* frames the outermost one is no longer followed
Call(stk, depth, E) ==
  IF Len(stk) = MaxStack THEN Append(Tail(stk), NewFrame(depth, E))
  ELSE Append(stk, NewFrame(depth, E))

\* the scene as the static initialisers build it
SceneTables == [spheres |-> spheres, triangles |-> triangles, LightSource |-> LightSource]
NoPx == [pc |-> "off"]
NoRend == [pc |-> "off"]

NoWalk == [pc |-> "off", depth |-> 0, id |-> 0, pend |-> <<>>, via |-> "none"]

Init ==
  /\ useTriangles \in BOOLEAN
  /\ stack = <<>>
  /\ obs = NoObs
  /\ qin = <<>>
  /\ qout = <<>>
  /\ walk = NoWalk
  /\ img = <<>>
  /\ px = NoPx
  /\ rend = NoRend
  /\ scene = SceneTables

\* Render: Radiance(ray, 0, 1) for a sample of a subpixel
Render ==
  /\ stack = <<>>
  /\ stack' = <<NewFrame(0, 1)>>
  /\ obs' = [NoObs EXCEPT !.step = "render"]
  /\ UNCHANGED <<useTriangles, qin, qout, walk, img, px, rend, scene>>

\* the scene query of Radiance, with id initialised to 0
Intersect(ds) ==
  IF useTriangles THEN IntersectTriangles(ds, 0) ELSE IntersectSpheres(ds, 0)

MissReturn(f, depth, lf) ==
  [f EXCEPT !.depth = depth, !.lightFirst = lf, !.pc = "ret",
            !.val = BackgroundColor, !.via = "miss"]

\* Radiance, from its entry to the fetch of the hit primitive
RadianceIntersect ==
  /\ stack # <<>>
  /\ Top.pc = "enter"
  /\ \E ray \in Rays(Scene) :
       LET depth == Incr(Top.depth)
           n == Len(Scene)
           q == Intersect(Dists(ray, n))
           got == Fetch(Scene, q.id)
           obj == got.obj
           lf == LightFirst(ray)
       IN  /\ stack' = SetTop(
                IF ~q.found THEN MissReturn(Top, depth, lf)
                ELSE [Top EXCEPT !.depth = depth, !.lightFirst = lf,
                                 !.pc = "hit", !.emission = obj.emission,
                                 !.col = obj.color, !.refl = obj.refl,
                                 !.id = q.id])
           /\ obs' = [NoObs EXCEPT !.step = "intersect",
                        !.missed = \A k \in 1..n : Dists(ray, n)[k] = 0]
           /\ scene' = IF q.found THEN WithActive(got.prims) ELSE scene
  /\ UNCHANGED <<useTriangles, qin, qout, walk, img, px, rend>>

\* the roulette starting one bounce early
RouletteEarly(depth, p) == depth >= maxDepth \/ p = R(0)

\* After max bounces or if max reflectivity is zero...
RouletteEngaged(depth, p) == depth > maxDepth \/ p = R(0)

\* Russian roulette
RadianceRoulette ==
  /\ stack # <<>>
  /\ Top.pc = "hit"
  /\ LET p == Max(Top.col)
         o == [NoObs EXCEPT !.step = "roulette", !.p = p, !.colIn = Top.col]
     IN  IF RouletteEngaged(Top.depth, p)
         THEN \E r \in 0..RAND_MAX :
                LET rnd == normRand(r) IN
                IF RLt(rnd, p)
                THEN /\ stack' = SetTop([Top EXCEPT
                            !.col = VScale(Top.col, RDiv(R(1), p)),
                            !.pc = "shade"])
                     /\ obs' = [o EXCEPT !.engaged = TRUE, !.rnd = rnd,
                                         !.scaled = TRUE, !.draws = 1]
                ELSE /\ stack' = SetTop([Top EXCEPT
                            !.val = VScale(Top.emission, R(Top.E)),
                            !.pc = "ret", !.via = "kill"])
                     /\ obs' = [o EXCEPT !.engaged = TRUE, !.rnd = rnd,
                                         !.draws = 1]
         ELSE /\ stack' = SetTop([Top EXCEPT !.pc = "shade"])
              /\ obs' = o
  /\ UNCHANGED <<useTriangles, qin, qout, walk, img, px, rend, scene>>

\* the explicit direct lighting term e of a diffuse hit
DirectLight(col, lit, ldotnl, cos_a_max) ==
  LET omega_over_pi == RMul(R(2), RSub(R(1), cos_a_max))
  IN  IF lit
      THEN MultComponents(col,
             VScale(VScale(scene.LightSource.emission, ldotnl), omega_over_pi))
      ELSE Zero

\* every recursive call passing includeEmission = 1
ChildEAlways(refl) == 1

\* includeEmission of the recursive call made from a hit of material refl
ChildE(refl) == IF refl = "DIFF" THEN 0 ELSE 1

\* obj.refl == DIFF, up to the recursive call
RadianceDiffuse ==
  /\ stack # <<>>
  /\ Top.pc = "shade"
  /\ Top.refl = "DIFF"
  /\ \E sray \in ShadowRays, ldotnl \in LDotNL, cos_a_max \in CosAMax :
       LET lit == IntersectLightSource(sray.dl)
           e == DirectLight(Top.col, lit, ldotnl, cos_a_max)
       IN  /\ stack' = Call(SetTop([Top EXCEPT !.pc = "DIFF", !.e = e,
                                      !.lightFirst = FALSE]),
                            Top.depth, ChildE("DIFF"))
           /\ obs' = [NoObs EXCEPT !.step = "diffuse", !.lit = lit,
                        !.blocked = Occluded(sray), !.ldotnl = ldotnl,
                        !.draws = 4, !.calls = 1]
  /\ UNCHANGED <<useTriangles, qin, qout, walk, img, px, rend, scene>>

\* obj.refl == SPEC, up to the recursive call
RadianceSpecular ==
  /\ stack # <<>>
  /\ Top.pc = "shade"
  /\ Top.refl = "SPEC"
  /\ stack' = Call(SetTop([Top EXCEPT !.pc = "SPEC", !.lightFirst = FALSE]),
                   Top.depth, ChildE("SPEC"))
  /\ obs' = [NoObs EXCEPT !.step = "specular", !.calls = 1]
  /\ UNCHANGED <<useTriangles, qin, qout, walk, img, px, rend, scene>>


\* R0 without the square
R0Unsquared == RDiv(RSub(nt, nc), RAdd(nt, nc))

\* Schlick's approximation of the Fresnel reflectance for cosine term c
R0 == RDiv(RMul(RSub(nt, nc), RSub(nt, nc)), RMul(RAdd(nt, nc), RAdd(nt, nc)))
Pow5(c) == RMul(c, RMul(c, RMul(c, RMul(c, c))))
Reflectance(c) == RAdd(R0, RMul(RSub(R(1), R0), Pow5(c)))

\* sqrt on the squares of the grid
Roots == {R(0), Frac(1, 8), Frac(1, 3), Frac(1, 2), R(1)} \cup {HalfEps(k) : k \in 0..MaxB} \cup {R(k) : k \in 0..MaxB}
Sqrt(x) == CHOOSE s \in Roots : RMul(s, s) = x

\* cos2t = 1 - nnt^2 (1 - ddn^2)
Cos2t(into, ddn) ==
  LET nnt == IF into THEN RDiv(nc, nt) ELSE RDiv(nt, nc)
  IN  RSub(R(1), RMul(RMul(nnt, nnt), RSub(R(1), RMul(ddn, ddn))))

\* the cosine term of Schlick's approximation: 1 + ddn entering the glass,
\* 1 - tdir.Dot(normal) leaving it, where tdir.Dot(normal) = sqrt(cos2t)
CosTerm(into, ddn) ==
  IF into THEN RAdd(R(1), ddn) ELSE RSub(R(1), Sqrt(Cos2t(into, ddn)))

Transmittance(Re) == RSub(R(1), Re)

\* a selection probability equal to the reflectance
SelectByReflectance(Re) == Re

\* P = .25 + .5 * Re
SelectP(Re) == RAdd(Frac(1, 4), RMul(Frac(1, 2), Re))
\* RP = Re / P, TP = Tr / (1 - P)
ScaleRP(Re) == RDivC(Re, SelectP(Re))
ScaleTP(Re) == RDivC(Transmittance(Re), RSub(R(1), SelectP(Re)))

\* both branches are followed while this holds
BothBranches(depth) == depth < 3

\* otherwise the object is transparent: up to the (first) recursive call
RadianceRefract ==
  /\ stack # <<>>
  /\ Top.pc = "shade"
  /\ Top.refl = "REFR"
  /\ \E into \in BOOLEAN, ddn \in DDN :
       LET cos2t == Cos2t(into, ddn)
           c == CosTerm(into, ddn)
           Re == Reflectance(c)
           Tr == Transmittance(Re)
           P == SelectP(Re)
           RP == ScaleRP(Re)
           TP == ScaleTP(Re)
           o == [NoObs EXCEPT !.step = "refract", !.calls = 1]
           f == [Top EXCEPT !.lightFirst = FALSE]
       IN  IF RLe(cos2t, R(0))
           THEN \* spheres.at(id).radius: at() throws beyond the vector
                /\ stack' = IF Top.id < Len(scene.spheres)
                             THEN Call(SetTop([f EXCEPT !.pc = "TIR"]),
                                       Top.depth, ChildE("REFR"))
                             ELSE <<>>
                /\ obs' = [o EXCEPT !.tir = TRUE, !.at = Top.id,
                                    !.calls = IF Top.id < Len(scene.spheres)
                                              THEN 1 ELSE 0]
           ELSE IF BothBranches(Top.depth)
           THEN /\ stack' = Call(SetTop([f EXCEPT !.pc = "BOTH1",
                                           !.wa = Re, !.wb = Tr]),
                                 Top.depth, ChildE("REFR"))
                /\ obs' = o
           ELSE \E r \in 0..RAND_MAX :
                  /\ stack' = Call(SetTop(
                         IF RLt(normRand(r), P)
                         THEN [f EXCEPT !.pc = "REFL", !.wa = RP]
                         ELSE [f EXCEPT !.pc = "TRANS", !.wa = TP]),
                       Top.depth, ChildE("REFR"))
                  /\ obs' = [o EXCEPT !.rnd = normRand(r), !.p = P,
                                      !.draws = 1]
  /\ UNCHANGED <<useTriangles, qin, qout, walk, img, px, rend, scene>>

\* the return statement of invocation f once its callee returned v
Resume(f, v) ==
  CASE f.pc = "DIFF" ->
         [f EXCEPT !.pc = "ret", !.via = "DIFF",
            !.val = VAdd(VAdd(VScale(f.emission, R(f.E)), f.e),
                         MultComponents(f.col, v))]
    [] f.pc \in {"SPEC", "TIR"} ->
         [f EXCEPT !.pc = "ret", !.via = f.pc,
            !.val = VAdd(f.emission, MultComponents(f.col, v))]
    [] f.pc = "BOTH1" ->
         [f EXCEPT !.pc = "BOTH2", !.rA = v]
    [] f.pc = "BOTH2" ->
         [f EXCEPT !.pc = "ret", !.via = "BOTH",
            !.val = VAdd(f.emission,
                         MultComponents(f.col,
                           VAdd(VScale(f.rA, f.wa), VScale(v, f.wb))))]
    [] f.pc \in {"REFL", "TRANS"} ->
         [f EXCEPT !.pc = "ret", !.via = f.pc,
            !.val = VAdd(f.emission, MultComponents(f.col, VScale(v, f.wa)))]

\* an invocation returns to its caller
RadianceReturn ==
  /\ stack # <<>>
  /\ Top.pc = "ret"
  /\ IF Len(stack) = 1
     THEN stack' = <<>>
     ELSE LET caller == Resume(stack[Len(stack) - 1], Top.val)
              rest == SubSeq(stack, 1, Len(stack) - 2)
          IN  stack' = IF caller.pc = "BOTH2"
                       THEN rest \o <<caller, NewFrame(caller.depth, ChildE("REFR"))>>
                       ELSE rest \o <<caller>>
  /\ obs' = [NoObs EXCEPT !.step = "return",
               !.calls = IF Len(stack') = Len(stack) THEN 1 ELSE 0]
  /\ UNCHANGED <<useTriangles, qin, qout, walk, img, px, rend, scene>>

Next ==
  \/ Render
  \/ RadianceIntersect
  \/ RadianceRoulette
  \/ RadianceDiffuse
  \/ RadianceSpecular
  \/ RadianceRefract
  \/ RadianceReturn

Spec == Init /\ [][Next]_vars


\* ------------------------------------------------------------ scene query
\* IntersectSpheres / IntersectTriangles on their own: the distances the
\* primitives' Intersect report and the caller's id are the inputs.
Queries ==
  [ds : UNION {[1..n -> Returned] : n \in 0..MaxPrims}, id : 0..(MaxPrims - 1)]

InitQ ==
  /\ useTriangles \in BOOLEAN
  /\ stack = <<>>
  /\ obs = NoObs
  /\ qin \in Queries
  /\ qout = <<>>
  /\ walk = NoWalk
  /\ img = <<>>
  /\ px = NoPx
  /\ rend = NoRend
  /\ scene = SceneTables

QueryTriangles ==
  /\ useTriangles
  /\ qout = <<>>
  /\ qout' = <<IntersectTriangles(qin.ds, qin.id)>>
  /\ UNCHANGED <<useTriangles, stack, obs, qin, walk, img, px, rend, scene>>

QuerySpheres ==
  /\ ~useTriangles
  /\ qout = <<>>
  /\ qout' = <<IntersectSpheres(qin.ds, qin.id)>>
  /\ UNCHANGED <<useTriangles, stack, obs, qin, walk, img, px, rend, scene>>

NextQ == QueryTriangles \/ QuerySpheres

SpecQuery == InitQ /\ [][NextQ]_vars

\* ---------------------------------------------------------- Sphere test
\* the test returning the far root first
SphereIntersectFar(center, radius, ray) ==
  LET c2o == VSub(center, ray.org)
      b == Dot(c2o, ray.dir)
      radicant == RAdd(RSub(RMul(b, b), Dot(c2o, c2o)), RMul(radius, radius))
  IN  IF RLt(radicant, R(0)) THEN R(0)
      ELSE IF RLt(eps, RAdd(b, Sqrt(radicant))) THEN RAdd(b, Sqrt(radicant))
      ELSE IF RLt(eps, RSub(b, Sqrt(radicant))) THEN RSub(b, Sqrt(radicant))
      ELSE R(0)

\* the test without the eps bias
SphereIntersectNoBias(center, radius, ray) ==
  LET c2o == VSub(center, ray.org)
      b == Dot(c2o, ray.dir)
      radicant == RAdd(RSub(RMul(b, b), Dot(c2o, c2o)), RMul(radius, radius))
  IN  IF RLt(radicant, R(0)) THEN R(0)
      ELSE IF RLt(R(0), RSub(b, Sqrt(radicant))) THEN RSub(b, Sqrt(radicant))
      ELSE IF RLt(R(0), RAdd(b, Sqrt(radicant))) THEN RAdd(b, Sqrt(radicant))
      ELSE R(0)

\* Sphere::Intersect
SphereIntersect(center, radius, ray) ==
  LET c2o == VSub(center, ray.org)
      b == Dot(c2o, ray.dir)
      radicant == RAdd(RSub(RMul(b, b), Dot(c2o, c2o)), RMul(radius, radius))
  IN  IF RLt(radicant, R(0))
      THEN R(0)
      ELSE LET root == Sqrt(radicant)
               t1 == RSub(b, root)
               t2 == RAdd(b, root)
           IN  IF RLt(eps, t1) THEN t1
               ELSE IF RLt(eps, t2) THEN t2
               ELSE R(0)

\* A sphere of radius 5 (in eps / 2) at the origin and rays along the x axis
\* that start bx before the centre at height h over the axis; the heights
\* are those for which radius^2 - h^2 is a square on the grid, and one above
\* the radius.
Heights == {0, 3, 4, 5, 6}
SphereRays ==
  {[center |-> Zero, radius |-> HalfEps(5),
    ray |-> [org |-> Vector(HalfEps(0 - bx), HalfEps(0 - h), R(0)),
             dir |-> Vector(R(1), R(0), R(0))]] :
     bx \in (0 - MaxB)..MaxB, h \in Heights}

InitS ==
  /\ useTriangles = FALSE
  /\ stack = <<>>
  /\ obs = NoObs
  /\ qin \in SphereRays
  /\ qout = <<>>
  /\ walk = NoWalk
  /\ img = <<>>
  /\ px = NoPx
  /\ rend = NoRend
  /\ scene = SceneTables

TestSphere ==
  /\ qout = <<>>
  /\ qout' = <<SphereIntersect(qin.center, qin.radius, qin.ray)>>
  /\ UNCHANGED <<useTriangles, stack, obs, qin, walk, img, px, rend, scene>>

NextS == TestSphere

SpecSphere == InitS /\ [][NextS]_vars

\* -------------------------------------------------------- Triangle test
\* IEEE doubles with their special values: <<n, d>> with d > 0 is finite,
\* <<0, 0>> is NaN, <<1, 0>> is +inf and <<-1, 0>> is -inf. Zero is taken
\* as +0.
XNaN == <<0, 0>>
Sgn(n) == IF n < 0 THEN 0 - 1 ELSE IF n > 0 THEN 1 ELSE 0
IsFinite(a) == a[2] # 0
IsNaN(a) == a = XNaN
XInf(sign) == <<sign, 0>>
XNeg(a) == <<0 - a[1], a[2]>>
XAdd(a, b) ==
  IF IsFinite(a) /\ IsFinite(b) THEN RAdd(a, b)
  ELSE IF IsNaN(a) \/ IsNaN(b) THEN XNaN
  ELSE IF IsFinite(a) THEN b
  ELSE IF IsFinite(b) THEN a
  ELSE IF a = b THEN a ELSE XNaN
XSub(a, b) == XAdd(a, XNeg(b))
XMul(a, b) ==
  IF IsFinite(a) /\ IsFinite(b) THEN RMul(a, b)
  ELSE IF IsNaN(a) \/ IsNaN(b) THEN XNaN
  ELSE IF a[1] = 0 \/ b[1] = 0 THEN XNaN
  ELSE XInf(Sgn(a[1]) * Sgn(b[1]))
XDiv(a, b) ==
  IF IsNaN(a) \/ IsNaN(b) THEN XNaN
  ELSE IF IsFinite(a) /\ IsFinite(b)
       THEN IF b[1] # 0 THEN RDiv(a, b)
            ELSE IF a[1] = 0 THEN XNaN ELSE XInf(Sgn(a[1]))
  ELSE IF IsFinite(a) THEN R(0)
  ELSE IF IsFinite(b) THEN XInf(Sgn(a[1]) * (IF b[1] < 0 THEN 0 - 1 ELSE 1))
  ELSE XNaN
XLt(a, b) ==
  IF IsNaN(a) \/ IsNaN(b) THEN FALSE
  ELSE IF IsFinite(a) /\ IsFinite(b) THEN RLt(a, b)
  ELSE IF IsFinite(a) THEN b = XInf(1)
  ELSE IF IsFinite(b) THEN a = XInf(0 - 1)
  ELSE a = XInf(0 - 1) /\ b = XInf(1)
XGt(a, b) == XLt(b, a)
XLe(a, b) == ~IsNaN(a) /\ ~IsNaN(b) /\ ~XLt(b, a)

XVAdd(a, b) == <<XAdd(a[1], b[1]), XAdd(a[2], b[2]), XAdd(a[3], b[3])>>
XVSub(a, b) == <<XSub(a[1], b[1]), XSub(a[2], b[2]), XSub(a[3], b[3])>>
XVScale(a, c) == <<XMul(a[1], c), XMul(a[2], c), XMul(a[3], c)>>
XVDiv(a, c) == <<XDiv(a[1], c), XDiv(a[2], c), XDiv(a[3], c)>>
XDot(a, b) == XAdd(XAdd(XMul(a[1], b[1]), XMul(a[2], b[2])), XMul(a[3], b[3]))
Cross(a, b) ==
  << RSub(RMul(a[2], b[3]), RMul(a[3], b[2])),
     RSub(RMul(a[3], b[1]), RMul(a[1], b[3])),
     RSub(RMul(a[1], b[2]), RMul(a[2], b[1])) >>
Length(v) == Sqrt(Dot(v, v))
Normalized(v) == XVDiv(v, Length(v))

\* Triangle::Triangle: the geometry fields
TriangleGeom(p0_, a_, b_) ==
  [p0 |-> p0_, p1 |-> VAdd(p0_, a_), p2 |-> VAdd(p0_, b_),
   edge_a |-> a_, edge_b |-> b_, normal |-> Normalized(Cross(a_, b_))]

\* the barycentric pair of the plane point q on the axes u, v
Lambdas(p0, p1, p2, q, u, v) ==
  LET det == XSub(XMul(XSub(p0[u], p2[u]), XSub(p1[v], p2[v])),
                  XMul(XSub(p0[v], p2[v]), XSub(p1[u], p2[u])))
  IN  << XDiv(XAdd(XMul(XSub(p1[v], p2[v]), XSub(q[u], p2[u])),
                   XMul(XSub(p2[u], p1[u]), XSub(q[v], p2[v]))), det),
         XDiv(XAdd(XMul(XSub(p2[v], p0[v]), XSub(q[u], p2[u])),
                   XMul(XSub(p0[u], p2[u]), XSub(q[v], p2[v]))), det) >>

\* Triangle::Intersect
TriangleIntersect(tri, ray) ==
  LET p0 == tri.p0
      p1 == tri.p1
      p2 == tri.p2
      t == XDiv(XDot(XVSub(p0, ray.org), tri.normal), XDot(ray.dir, tri.normal))
      q == XVAdd(ray.org, XVScale(ray.dir, t))
      lam == IF p0[3] = p2[3] /\ p1[3] = p2[3] THEN Lambdas(p0, p1, p2, q, 1, 2)
             ELSE IF p0[1] = p2[1] /\ p1[1] = p2[1] THEN Lambdas(p0, p1, p2, q, 2, 3)
             ELSE IF p0[2] = p2[2] /\ p1[2] = p2[2] THEN Lambdas(p0, p1, p2, q, 1, 3)
             ELSE Lambdas(p0, p1, p2, q, 1, 2)
      lambda_0 == lam[1]
      lambda_1 == lam[2]
      lambda_2 == XSub(XSub(R(1), lambda_0), lambda_1)
  IN  IF XLe(t, eps) THEN R(0)
      ELSE IF \/ XGt(lambda_0, R(1)) \/ XLt(lambda_0, R(0))
              \/ XGt(lambda_1, R(1)) \/ XLt(lambda_1, R(0))
              \/ XGt(lambda_2, R(1)) \/ XLt(lambda_2, R(0))
           THEN R(0)
           ELSE t

\* the axis pair whose 2x2 system Triangle::Intersect solves
SelectedAxes(tri) ==
  IF tri.p0[3] = tri.p2[3] /\ tri.p1[3] = tri.p2[3] THEN <<1, 2>>
  ELSE IF tri.p0[1] = tri.p2[1] /\ tri.p1[1] = tri.p2[1] THEN <<2, 3>>
  ELSE IF tri.p0[2] = tri.p2[2] /\ tri.p1[2] = tri.p2[2] THEN <<1, 3>>
  ELSE <<1, 2>>

\* the divisor of lambda_0 and lambda_1 on the axes u, v
Determinant(tri, u, v) ==
  RSub(RMul(RSub(tri.p0[u], tri.p2[u]), RSub(tri.p1[v], tri.p2[v])),
       RMul(RSub(tri.p0[v], tri.p2[v]), RSub(tri.p1[u], tri.p2[u])))

IVec(x, y, z) == Vector(R(x), R(y), R(z))

\* Triangles in each position the branches of Triangle::Intersect tell
\* apart: constant z, constant x, constant y, tilted, upright over a slanted
\* line of the xy plane, and of zero area.
TestTriangles ==
  { TriangleGeom(IVec(0, 0, 0), IVec(2, 0, 0), IVec(0, 2, 0)),
    TriangleGeom(IVec(1, 0, 0), IVec(0, 0, 2), IVec(0, 2, 0)),
    TriangleGeom(IVec(0, 1, 0), IVec(2, 0, 0), IVec(0, 0, 2)),
    TriangleGeom(IVec(0, 0, 0), IVec(1, 0, 0), IVec(0, 3, 4)),
    TriangleGeom(IVec(0, 0, 0), IVec(4, 0 - 3, 0), IVec(0, 0, 1)),
    TriangleGeom(IVec(0, 0, 0), IVec(2, 0, 0), IVec(4, 0, 0)) }

Axes ==
  { IVec(1, 0, 0), IVec(0 - 1, 0, 0), IVec(0, 1, 0), IVec(0, 0 - 1, 0),
    IVec(0, 0, 1), IVec(0, 0, 0 - 1) }

\* the point p0 + (i/2) edge_a + (j/2) edge_b of the triangle's plane
PlanePoint(tri, i, j) ==
  VAdd(tri.p0, VAdd(VScale(tri.edge_a, Frac(i, 2)), VScale(tri.edge_b, Frac(j, 2))))

\* rays along an axis that start one unit before, at, or one unit past a
\* point of the plane, some of them shifted off it
TriangleRays ==
  {[tri |-> tri,
    ray |-> [org |-> VAdd(VSub(PlanePoint(tri, i, j), VScale(dir, R(s))), w),
             dir |-> dir]] :
     tri \in TestTriangles, i \in (0 - 1)..MaxLam, j \in (0 - 1)..MaxLam,
     dir \in Axes, s \in {0 - 1, 0, 1}, w \in {Zero, IVec(1, 1, 1)}}

InitT ==
  /\ useTriangles = TRUE
  /\ stack = <<>>
  /\ obs = NoObs
  /\ qin \in TriangleRays
  /\ qout = <<>>
  /\ walk = NoWalk
  /\ img = <<>>
  /\ px = NoPx
  /\ rend = NoRend
  /\ scene = SceneTables

\* the test of the query loop without its upper bound
SelectsPositive(d) == XGt(d, R(0))

\* d > 0.0 && d < t in IntersectTriangles with t = 1e20, its value until a
\* triangle is taken; the finite values of the test are all far below 1e20
Selects(d) == XGt(d, R(0)) /\ (IsFinite(d) \/ d = XInf(0 - 1))

\* qout is what Intersect returns and whether the query loop takes it
TestTriangle ==
  /\ qout = <<>>
  /\ qout' = << TriangleIntersect(qin.tri, qin.ray),
                Selects(TriangleIntersect(qin.tri, qin.ray)) >>
  /\ UNCHANGED <<useTriangles, stack, obs, qin, walk, img, px, rend, scene>>

NextT == TestTriangle

SpecTriangle == InitT /\ [][NextT]_vars

\* ------------------------------------------------------- call-tree walk
\* The control flow of one Radiance evaluation, walked depth first. A frame
\* that made one recursive call returns as soon as its callee does, so only
\* the frames still owing their second (refracted) call are kept, by depth.
InitP ==
  /\ useTriangles \in BOOLEAN
  /\ stack = <<>>
  /\ obs = NoObs
  /\ qin = <<>>
  /\ qout = <<>>
  /\ walk = [NoWalk EXCEPT !.pc = "idle"]
  /\ img = <<>>
  /\ px = NoPx
  /\ rend = NoRend
  /\ scene = SceneTables

\* Radiance(ray, 0, 1) for one sample
PathRender ==
  /\ walk.pc = "idle"
  /\ walk' = [walk EXCEPT !.pc = "enter"]
  /\ UNCHANGED <<useTriangles, stack, obs, qin, qout, img, px, rend, scene>>

\* _depth++ and the scene query
PathIntersect ==
  /\ walk.pc = "enter"
  /\ \E ray \in Rays(Scene) :
       LET q == Intersect(Dists(ray, Len(Scene)))
       IN walk' = IF q.found
                  THEN [walk EXCEPT !.depth = Incr(walk.depth),
                                    !.id = q.id, !.pc = "hit"]
                  ELSE [walk EXCEPT !.depth = Incr(walk.depth),
                                    !.pc = "leaf", !.via = "miss"]
  /\ UNCHANGED <<useTriangles, stack, obs, qin, qout, img, px, rend, scene>>

WalkP == Max(Scene[walk.id + 1].color)

\* the roulette draw that ends the path
PathKill ==
  /\ walk.pc = "hit"
  /\ RouletteEngaged(walk.depth, WalkP)
  /\ \E r \in 0..RAND_MAX : ~RLt(normRand(r), WalkP)
  /\ walk' = [walk EXCEPT !.pc = "leaf", !.via = "kill"]
  /\ UNCHANGED <<useTriangles, stack, obs, qin, qout, img, px, rend, scene>>

\* no roulette, or the draw that lets the path go on
PathSurvive ==
  /\ walk.pc = "hit"
  /\ RouletteEngaged(walk.depth, WalkP) =>
       \E r \in 0..RAND_MAX : RLt(normRand(r), WalkP)
  /\ walk' = [walk EXCEPT !.pc = "shade"]
  /\ UNCHANGED <<useTriangles, stack, obs, qin, qout, img, px, rend, scene>>

\* the recursive call(s) of the material branch
PathShade ==
  /\ walk.pc = "shade"
  /\ IF Scene[walk.id + 1].refl = "REFR"
     THEN \E into \in BOOLEAN, ddn \in DDN :
            IF ~RLt(R(0), Cos2t(into, ddn)) \/ ~BothBranches(walk.depth)
            THEN walk' = [walk EXCEPT !.pc = "enter"]
            ELSE walk' = [walk EXCEPT !.pc = "enter",
                                      !.pend = Append(walk.pend, walk.depth)]
     ELSE walk' = [walk EXCEPT !.pc = "enter"]
  /\ UNCHANGED <<useTriangles, stack, obs, qin, qout, img, px, rend, scene>>

\* a return: back to the innermost frame owing a call, or out of Radiance
PathReturn ==
  /\ walk.pc = "leaf"
  /\ IF walk.pend = <<>>
     THEN walk' = [walk EXCEPT !.pc = "done"]
     ELSE walk' = [walk EXCEPT !.pc = "enter", !.via = "none",
                               !.depth = walk.pend[Len(walk.pend)],
                               !.pend = SubSeq(walk.pend, 1, Len(walk.pend) - 1)]
  /\ UNCHANGED <<useTriangles, stack, obs, qin, qout, img, px, rend, scene>>

NextP ==
  \/ PathRender
  \/ PathIntersect
  \/ PathKill
  \/ PathSurvive
  \/ PathShade
  \/ PathReturn

FairPath == InitP /\ [][NextP]_vars /\ WF_vars(NextP) /\ SF_vars(PathKill)

\* ------------------------------------------------- one pixel of Render
\* Image::Image: new Color[width * height], every Color default-constructed
Image(w, h) == [i \in 1..(w * h) |-> Zero]

\* an index that ignores the row
image_indexOfColumn(x, y) == x

\* an index that stores row 0 first
image_indexBottomUp(x, y) == y * width + x

image_index(x, y) == (height - y - 1) * width + x

getColor(pixels, x, y) == pixels[image_index(x, y) + 1]

setColor(pixels, x, y, c) == [pixels EXCEPT ![image_index(x, y) + 1] = c]

\* an addColor that stores the contribution instead of adding it
addColorStore(pixels, x, y, c) == [pixels EXCEPT ![image_index(x, y) + 1] = c]

addColor(pixels, x, y, c) ==
  [pixels EXCEPT ![image_index(x, y) + 1] = VAdd(pixels[image_index(x, y) + 1], c)]

clampChannel(x) == IF RLt(x, R(0)) THEN R(0) ELSE IF RLt(R(1), x) THEN R(1) ELSE x
clamp(v) == <<clampChannel(v[1]), clampChannel(v[2]), clampChannel(v[3])>>

\* an accumulation that clamps every sample
AccumulateClamped(acc, rad) == VAdd(acc, VScale(clamp(rad), Frac(1, nbSamples)))

\* accumulated_radiance + Radiance(ray, 0, 1) / (double)nbSamples
Accumulate(acc, rad) == VAdd(acc, VScale(rad, Frac(1, nbSamples)))

\* values Radiance(ray, 0, 1) returns for the primary rays of a subpixel:
\* black, a colour with one channel above 1 and one below 0, and mid grey
Samples ==
  { Zero,
    Vector(R(3), Frac(1, 2), R(0 - 1)),
    Vector(Frac(1, 2), Frac(1, 2), Frac(1, 2)) }

\* px.raw is the plain sum of the samples of every subpixel taken so far,
\* px.writes the stores into the buffer with the number of subpixels whose
\* sample loop had ended when the store was made
InitPx ==
  /\ useTriangles = FALSE
  /\ stack = <<>>
  /\ obs = NoObs
  /\ qin = <<>>
  /\ qout = <<>>
  /\ walk = NoWalk
  /\ img = Image(width, height)
  /\ \E x \in 0..(width - 1), y \in 0..(height - 1) :
       px = [pc |-> "setColor", x |-> x, y |-> y, sy |-> 0, sx |-> 0, s |-> 0,
             accumulated_radiance |-> Zero, raw |-> <<>>, writes |-> <<>>]
  /\ rend = NoRend
  /\ scene = SceneTables

\* _img.setColor(x, y, Color())
PixelSetColor ==
  /\ px.pc = "setColor"
  /\ img' = setColor(img, px.x, px.y, Zero)
  /\ px' = [px EXCEPT !.pc = "sample",
              !.raw = <<Zero>>,
              !.writes = Append(px.writes,
                 [op |-> "set", index |-> image_index(px.x, px.y), ended |-> 0])]
  /\ UNCHANGED <<useTriangles, stack, obs, qin, qout, walk, rend, scene>>

\* one iteration of the sample loop
PixelSample ==
  /\ px.pc = "sample"
  /\ px.s < nbSamples
  /\ \E rad \in Samples :
       px' = [px EXCEPT !.s = px.s + 1,
                !.accumulated_radiance = Accumulate(px.accumulated_radiance, rad),
                !.raw[Len(px.raw)] = VAdd(px.raw[Len(px.raw)], rad)]
  /\ UNCHANGED <<useTriangles, stack, obs, qin, qout, walk, img, rend, scene>>

\* the end of the sample loop: clamp, scale, addColor, next subpixel
PixelAddColor ==
  /\ px.pc = "sample"
  /\ px.s = nbSamples
  /\ LET c == VScale(clamp(px.accumulated_radiance), Frac(1, 4))
         last == px.sy = 1 /\ px.sx = 1
     IN  /\ img' = addColor(img, px.x, px.y, c)
         /\ px' = [px EXCEPT !.pc = IF last THEN "done" ELSE "sample",
                     !.sx = IF px.sx = 0 THEN 1 ELSE 0,
                     !.sy = IF px.sx = 1 THEN px.sy + 1 ELSE px.sy,
                     !.s = 0,
                     !.accumulated_radiance = Zero,
                     !.raw = IF last THEN px.raw ELSE Append(px.raw, Zero),
                     !.writes = Append(px.writes,
                        [op |-> "add", index |-> image_index(px.x, px.y),
                         ended |-> Len(px.raw)])]
  /\ UNCHANGED <<useTriangles, stack, obs, qin, qout, walk, rend, scene>>

NextPx ==
  \/ PixelSetColor
  \/ PixelSample
  \/ PixelAddColor

SpecPixel == InitPx /\ [][NextPx]_vars

\* ------------------------------------------- the parallel loops of Render
\* The outer "omp parallel for" hands every row y to exactly one thread of
\* its team; the inner one runs on the same thread when nested parallelism
\* is off (the OpenMP default) and on a team of two when it is on.
\* srand/rand keep one state per process (glibc) or one per thread (MSVC
\* runtime); a state is <<seed, n>>, n the number of rand() calls since the
\* seed was set, and the value rand() returns is a function of the state.
\* A colour is modelled by the draws that went into it: img[i] is the
\* sequence of generator states from which the samples added to cell i
\* were drawn.
Team == {"A", "B"}
Helper(w) == IF w = "A" THEN "a" ELSE "b"
Helpers == {Helper(w) : w \in Team}
Threads == Team \cup Helpers

\* rand() before any srand() behaves as after srand(1)
Unseeded == <<1, 0>>
Seed(y) == y * y * y
Generators == Threads \cup {"process"}
Generator(t) == IF rend.perThread THEN t ELSE "process"

\* the columns a thread of the inner team runs (static schedule: one
\* contiguous chunk per thread, run in increasing order)
Chunk(t) ==
  IF ~rend.nested THEN 0..(width - 1)
  ELSE IF t \in Team THEN 0..(((width + 1) \div 2) - 1)
  ELSE ((width + 1) \div 2)..(width - 1)

Slot(x, y) == image_index(x, y) + 1
Idle == [pc |-> "idle", y |-> 0]
Off == [pc |-> "off", y |-> 0]

InitR ==
  /\ useTriangles = FALSE
  /\ stack = <<>>
  /\ obs = NoObs
  /\ qin = <<>>
  /\ qout = <<>>
  /\ walk = NoWalk
  /\ img = [i \in 1..(width * height) |-> <<>>]
  /\ px = NoPx
  /\ \E nested \in BOOLEAN, perThread \in BOOLEAN :
       rend = [pc |-> "render", nested |-> nested, perThread |-> perThread,
               rows |-> 0..(height - 1),
               cols |-> [y \in 0..(height - 1) |-> {}],
               th |-> [t \in Threads |-> IF t \in Team THEN Idle ELSE Off],
               gen |-> [g \in Generators |-> Unseeded],
               users |-> [g \in Generators |-> {}],
               writers |-> [i \in 1..(width * height) |-> {}],
               iterations |-> [i \in 1..(width * height) |-> 0]]
  /\ scene = SceneTables

\* a thread of the outer team takes a row and runs srand(y * y * y)
RowStart(w) ==
  /\ rend.pc = "render"
  /\ w \in Team
  /\ rend.th[w].pc = "idle"
  /\ \E y \in rend.rows :
       rend' = [rend EXCEPT
                  !.rows = rend.rows \ {y},
                  !.cols[y] = 0..(width - 1),
                  !.gen[Generator(w)] = <<Seed(y), 0>>,
                  !.users[Generator(w)] = rend.users[Generator(w)] \cup {w},
                  !.th[w] = [pc |-> "column", y |-> y],
                  !.th[Helper(w)] =
                     IF rend.nested THEN [pc |-> "column", y |-> y]
                     ELSE Off]
  /\ UNCHANGED <<useTriangles, stack, obs, qin, qout, walk, img, px, scene>>

\* One iteration of the column loop, taken as one step: setColor(x, y,
\* Color()), the draws of the samples (normRand() calls rand()) and the
\* addColor calls.  The rand() calls of different threads interleave more
\* finely in the program, which adds behaviours to those of the model and
\* removes none.
PixelRender(t) ==
  /\ rend.pc = "render"
  /\ rend.th[t].pc = "column"
  /\ LET y == rend.th[t].y
         g == Generator(t)
         state == rend.gen[g]
     IN  \E x \in rend.cols[y] \cap Chunk(t) :
           /\ \A x2 \in rend.cols[y] \cap Chunk(t) : x <= x2
           /\ img' = [img EXCEPT ![Slot(x, y)] = Append(<<>>, state)]
           /\ rend' = [rend EXCEPT
                         !.cols[y] = rend.cols[y] \ {x},
                         !.gen[g] = <<state[1], state[2] + 1>>,
                         !.users[g] = rend.users[g] \cup {t},
                         !.writers[Slot(x, y)] = rend.writers[Slot(x, y)] \cup {t},
                         !.iterations[Slot(x, y)] = rend.iterations[Slot(x, y)] + 1,
                         !.th[t] = [pc |-> "column", y |-> y]]
  /\ UNCHANGED <<useTriangles, stack, obs, qin, qout, walk, px, scene>>

\* the end of the inner loop: every thread of the inner team has run its
\* chunk, the team is dissolved and the encountering thread goes on
RowEnd(w) ==
  /\ rend.pc = "render"
  /\ w \in Team
  /\ rend.th[w].pc = "column"
  /\ rend.cols[rend.th[w].y] = {}
  /\ rend' = [rend EXCEPT !.th[w] = Idle, !.th[Helper(w)] = Off]
  /\ UNCHANGED <<useTriangles, stack, obs, qin, qout, walk, img, px, scene>>

\* the end of the outer loop
RenderEnd ==
  /\ rend.pc = "render"
  /\ rend.rows = {}
  /\ \A w \in Team : rend.th[w].pc = "idle"
  /\ rend' = [rend EXCEPT !.pc = "done"]
  /\ UNCHANGED <<useTriangles, stack, obs, qin, qout, walk, img, px, scene>>

NextR ==
  \/ \E w \in Team : RowStart(w)
  \/ \E t \in Threads : PixelRender(t)
  \/ \E w \in Team : RowEnd(w)
  \/ RenderEnd

SpecRender == InitR /\ [][NextR]_vars

\* ----------------------------------------------------------- Image::Save
\* Naturals too large for a machine word, as little-endian sequences of
\* digits in base 10000 without leading zeros (<<>> is 0); they carry the
\* comparison that decides the value of int(pow(x, 1/2.2) * 255 + 0.5).
RECURSIVE BigTimes(_, _, _)
BigTimes(a, m, carry) ==
  IF a = <<>> THEN (IF carry = 0 THEN <<>> ELSE <<carry>>)
  ELSE LET p == Head(a) * m + carry
       IN  <<p % 10000>> \o BigTimes(Tail(a), m, p \div 10000)
BigMul(a, m) == IF m = 0 THEN <<>> ELSE BigTimes(a, m, 0)
RECURSIVE BigMulPow(_, _, _)
\* a * m^e
BigMulPow(a, m, e) == IF e = 0 THEN a ELSE BigMulPow(BigMul(a, m), m, e - 1)
RECURSIVE BigLeFrom(_, _, _)
BigLeFrom(a, b, i) ==
  IF i = 0 THEN TRUE
  ELSE IF a[i] # b[i] THEN a[i] < b[i]
  ELSE BigLeFrom(a, b, i - 1)
BigLe(a, b) ==
  IF Len(a) # Len(b) THEN Len(a) < Len(b) ELSE BigLeFrom(a, b, Len(a))

\* v <= pow(x, 1/2.2) * 255 + 0.5 for x = n/d > 0 and the exponent 5/11:
\* (2v - 1)^11 * d^5 <= 510^11 * n^5
Reaches(x, v) ==
  \/ v = 0
  \/ BigLe(BigMulPow(BigMulPow(<<1>>, 2 * v - 1, 11), x[2], 5),
           BigMulPow(BigMulPow(<<1>>, 510, 11), x[1], 5))

\* the largest v in lo..hi-1 that Reaches, given Reaches(lo) and not Reaches(hi)
RECURSIVE Truncate(_, _, _)
Truncate(x, lo, hi) ==
  IF hi = lo + 1 THEN lo
  ELSE LET mid == (lo + hi) \div 2
       IN  IF Reaches(x, mid) THEN Truncate(x, mid, hi) ELSE Truncate(x, lo, mid)

\* stored channel values: below 0, the quarters of [0, 1], above 1
Channels ==
  {Frac(0 - 1, 2), R(0), Frac(1, 4), Frac(1, 2), Frac(3, 4), R(1), Frac(5, 4), R(2)}

\* int(pow(x, 1/2.2) * 255 + 0.5) for the x >= 0 among them, computed once
Levels ==
  [x \in {c \in Channels : RLe(R(0), c)} |->
     IF x[1] = 0 THEN 0 ELSE Truncate(x, 0, 1024)]
Gamma(x) == Levels[x]

\* a toInteger that clamps below 0 only
toIntegerClampBelow(x) == Gamma(IF RLt(x, R(0)) THEN R(0) ELSE x)

toInteger(x) ==
  Gamma(IF RLt(x, R(0)) THEN R(0) ELSE IF RLt(R(1), x) THEN R(1) ELSE x)

StoredColors ==
  { Vector(Frac(0 - 1, 2), Frac(1, 4), R(2)),
    Vector(R(0), Frac(3, 4), R(1)),
    Vector(Frac(1, 2), Frac(5, 4), Frac(1, 4)) }

\* qin is the position of Save and the FILE* that fopen returned, with the
\* number of calls made on a null FILE*; qout is what has been written to
\* the file
InitSave ==
  /\ useTriangles = FALSE
  /\ stack = <<>>
  /\ obs = NoObs
  /\ \E f \in {"file", "NULL"} :
       qin = [pc |-> "header", i |-> 0, f |-> f, nullCalls |-> 0]
  /\ qout = <<>>
  /\ walk = NoWalk
  /\ img \in [1..(width * height) -> StoredColors]
  /\ px = NoPx
  /\ rend = NoRend
  /\ scene = SceneTables

\* fprintf(f, "P3\n%d %d\n%d\n", width, height, 255)
SaveHeader ==
  /\ qin.pc = "header"
  /\ qin.f = "file"
  /\ qout' = <<"P3", width, height, 255>>
  /\ qin' = [qin EXCEPT !.pc = "pixels", !.i = 0]
  /\ UNCHANGED <<useTriangles, stack, obs, walk, img, px, rend, scene>>

\* the same fprintf when fopen returned NULL: f is not tested, the call on
\* a null stream is undefined; the process is killed in it, or it returns
\* and Save goes on with what it finds
SaveHeaderNull ==
  /\ qin.pc = "header"
  /\ qin.f = "NULL"
  /\ \E outcome \in {"crashed", "undefined"} :
       qin' = [qin EXCEPT !.pc = outcome, !.nullCalls = qin.nullCalls + 1]
  /\ UNCHANGED <<useTriangles, stack, obs, qout, walk, img, px, rend, scene>>

\* one iteration of the loop over pixels[i]
SavePixel ==
  /\ qin.pc = "pixels"
  /\ qin.i < width * height
  /\ qout' = qout \o << toInteger(img[qin.i + 1][1]),
                        toInteger(img[qin.i + 1][2]),
                        toInteger(img[qin.i + 1][3]) >>
  /\ qin' = [qin EXCEPT !.i = qin.i + 1]
  /\ UNCHANGED <<useTriangles, stack, obs, walk, img, px, rend, scene>>

\* fclose(f)
SaveClose ==
  /\ qin.pc = "pixels"
  /\ qin.i = width * height
  /\ qin' = [qin EXCEPT !.pc = "closed"]
  /\ UNCHANGED <<useTriangles, stack, obs, qout, walk, img, px, rend, scene>>

NextSave ==
  \/ SaveHeader
  \/ SaveHeaderNull
  \/ SavePixel
  \/ SaveClose

SpecSave == InitSave /\ [][NextSave]_vars

\* ----------------------------------------------------------------- main
\* main of pathTracing.cpp: img is constructed, handed to Render by value
\* and saved. The variable img holds the arrays allocated by new Color[];
\* an Image object holds the index of its array in field pixels.
NoImage == [width |-> 0, height |-> 0, pixels |-> 0]

\* Image(_w, _h): pixels = new Color[width * height]
ImageNew(heap, w, h) ==
  [heap |-> Append(heap, Image(w, h)),
   obj |-> [width |-> w, height |-> h, pixels |-> Len(heap) + 1]]

\* the implicit copy constructor: member by member, the pointer included
ImageCopy(from) == [width |-> from.width, height |-> from.height, pixels |-> from.pixels]

InitMain ==
  /\ useTriangles = FALSE
  /\ stack = <<>>
  /\ obs = NoObs
  /\ qin = [pc |-> "start", img |-> NoImage, _img |-> NoImage, x |-> 0, y |-> 0]
  /\ qout = <<>>
  /\ walk = NoWalk
  /\ img = <<>>
  /\ px = [pc |-> "main", acc |-> <<>>]
  /\ rend = NoRend
  /\ scene = SceneTables

\* pathTracing::Image img(width, height)
MainImage ==
  /\ qin.pc = "start"
  /\ img' = ImageNew(img, width, height).heap
  /\ qin' = [qin EXCEPT !.pc = "call", !.img = ImageNew(img, width, height).obj]
  /\ UNCHANGED <<useTriangles, stack, obs, qout, walk, px, rend, scene>>

\* pathTracing::Render(img): the parameter _img is a copy of img
MainRender ==
  /\ qin.pc = "call"
  /\ qin' = [qin EXCEPT !.pc = "render", !._img = ImageCopy(qin.img),
                        !.x = 0, !.y = 0]
  /\ UNCHANGED <<useTriangles, stack, obs, qout, walk, img, px, rend, scene>>

\* one iteration of the loops of Render: setColor(x, y, Color()) and the
\* addColor calls of the subpixels, summing to col
RenderPixel ==
  /\ qin.pc = "render"
  /\ qin.y < qin._img.height
  /\ \E col \in StoredColors :
       /\ img' = [img EXCEPT ![qin._img.pixels] =
                    addColor(setColor(@, qin.x, qin.y, Zero), qin.x, qin.y, col)]
       /\ px' = [px EXCEPT !.acc = Append(@, <<qin.x, qin.y, col>>)]
  /\ qin' = IF qin.x + 1 < qin._img.width
            THEN [qin EXCEPT !.x = qin.x + 1]
            ELSE [qin EXCEPT !.x = 0, !.y = qin.y + 1]
  /\ UNCHANGED <<useTriangles, stack, obs, qout, walk, rend, scene>>

\* the end of Render: "Done!" is printed and control flows off the end of a
\* function declared int without a return statement, which is undefined: it
\* returns to main, or it does not
RenderFlowsOff ==
  /\ qin.pc = "render"
  /\ qin.y = qin._img.height
  /\ \E outcome \in {"returned", "undefined"} :
       qin' = [qin EXCEPT !.pc = outcome]
  /\ UNCHANGED <<useTriangles, stack, obs, qout, walk, img, px, rend, scene>>

\* img.Save("result.ppm"): the colours of img.pixels, in storage order
MainSave ==
  /\ qin.pc = "returned"
  /\ qout' = img[qin.img.pixels]
  /\ qin' = [qin EXCEPT !.pc = "saved"]
  /\ UNCHANGED <<useTriangles, stack, obs, walk, img, px, rend, scene>>

NextMain ==
  \/ MainImage
  \/ MainRender
  \/ RenderPixel
  \/ RenderFlowsOff
  \/ MainSave

SpecMain == InitMain /\ [][NextMain]_vars

\* ------------------------------------------- the windowed renderer (GPU)
\* main.cpp: the GL calls of a frame, in program order. Calls that touch
\* neither the screen texture nor the window buffers are "state".
renderRaysNoBarrier == <<"state", "dispatch">>

\* glUseProgram ... glUniform1i, glDispatchCompute, glMemoryBarrier
renderRays == <<"state", "dispatch", "barrier">>

\* glBindFramebuffer, glClear, m_drawQuad->drawScreenQuad
displayScreen == <<"state", "draw">>

\* the body of the main loop after glfwPollEvents: the ImGui frame and
\* runGUI, update, renderRays, displayScreen, the GUI draw data, the swap
MainFrame == <<"state">> \o renderRays \o displayScreen \o <<"state", "swap">>

\* resizeCallback: the viewport, update, renderRays, displayScreen, the swap
ResizeFrame == <<"state">> \o renderRays \o displayScreen \o <<"swap">>

Program(ctx) == IF ctx = "resize" THEN ResizeFrame ELSE MainFrame

\* framebuffer sizes a resize event carries
Sizes == {<<1, 1>>, <<2, 1>>, <<2, 2>>}

\* the screen texture: gen counts the dispatches that wrote it, coherent
\* tells whether those writes are visible to later image loads, read is
\* what the last quad draw saw
Texture == [gen |-> 0, coherent |-> TRUE, read |-> <<0, TRUE>>, deleted |-> FALSE]

InitW ==
  /\ useTriangles = FALSE
  /\ stack = <<>>
  /\ obs = NoObs
  /\ qin = [phase |-> "test", ctx |-> "main", pc |-> 0, frames |-> 0,
            events |-> 0, close |-> FALSE, size |-> <<2, 2>>]
  /\ qout = <<>>
  /\ walk = NoWalk
  /\ img = Texture
  /\ px = NoPx
  /\ rend = NoRend
  /\ scene = SceneTables

\* the GL calls since the last buffer swap, that swap excluded
Frame == IF qout # <<>> /\ qout[Len(qout)] = "swap" THEN <<>> ELSE qout

\* while (!glfwWindowShouldClose(m_window)), and the cleanup after the loop
LoopTest ==
  /\ qin.phase = "test"
  /\ IF qin.close \/ qin.frames = MaxFrames
     THEN /\ qin' = [qin EXCEPT !.phase = "done"]
          /\ img' = [img EXCEPT !.deleted = TRUE]
     ELSE /\ qin' = [qin EXCEPT !.phase = "poll"]
          /\ img' = img
  /\ UNCHANGED <<useTriangles, stack, obs, qout, walk, px, rend, scene>>

\* glfwPollEvents delivers a framebuffer-size event: resizeCallback starts
PollResize ==
  /\ qin.phase = "poll"
  /\ qin.events < MaxEvents
  /\ \E sz \in Sizes :
       qin' = [qin EXCEPT !.phase = "run", !.ctx = "resize", !.pc = 1,
                          !.events = qin.events + 1, !.size = sz]
  /\ UNCHANGED <<useTriangles, stack, obs, qout, walk, img, px, rend, scene>>

\* glfwPollEvents delivers a close request
PollClose ==
  /\ qin.phase = "poll"
  /\ ~qin.close
  /\ qin' = [qin EXCEPT !.close = TRUE]
  /\ UNCHANGED <<useTriangles, stack, obs, qout, walk, img, px, rend, scene>>

\* glfwPollEvents returns: the body of the loop runs
PollReturn ==
  /\ qin.phase = "poll"
  /\ qin' = [qin EXCEPT !.phase = "run", !.ctx = "main", !.pc = 1]
  /\ UNCHANGED <<useTriangles, stack, obs, qout, walk, img, px, rend, scene>>

Step == Program(qin.ctx)[qin.pc]
Running(kind) == qin.phase = "run" /\ Step = kind
Advance == [qin EXCEPT !.pc = qin.pc + 1]

\* calls that leave the texture and the window buffers alone
StateCalls ==
  /\ Running("state")
  /\ qin' = Advance
  /\ qout' = Append(Frame, "state")
  /\ UNCHANGED <<useTriangles, stack, obs, walk, img, px, rend, scene>>

\* glDispatchCompute: the shader's image stores are issued
DispatchCompute ==
  /\ Running("dispatch")
  /\ qin' = Advance
  /\ qout' = Append(Frame, "dispatch")
  /\ img' = [img EXCEPT !.gen = img.gen + 1, !.coherent = FALSE]
  /\ UNCHANGED <<useTriangles, stack, obs, walk, px, rend, scene>>

\* glMemoryBarrier(GL_SHADER_IMAGE_ACCESS_BARRIER_BIT)
MemoryBarrier ==
  /\ Running("barrier")
  /\ qin' = Advance
  /\ qout' = Append(Frame, "barrier")
  /\ img' = [img EXCEPT !.coherent = TRUE]
  /\ UNCHANGED <<useTriangles, stack, obs, walk, px, rend, scene>>

\* drawScreenQuad: the quad shader loads the image
DrawScreenQuad ==
  /\ Running("draw")
  /\ qin' = Advance
  /\ qout' = Append(Frame, "draw")
  /\ img' = [img EXCEPT !.read = <<img.gen, img.coherent>>]
  /\ UNCHANGED <<useTriangles, stack, obs, walk, px, rend, scene>>

\* glfwSwapBuffers: the last call of the loop body and of resizeCallback;
\* the callback returns into glfwPollEvents
SwapBuffers ==
  /\ Running("swap")
  /\ qout' = Append(Frame, "swap")
  /\ qin' = IF qin.ctx = "resize"
            THEN [qin EXCEPT !.phase = "poll", !.ctx = "main", !.pc = 0]
            ELSE [qin EXCEPT !.phase = "test", !.pc = 0,
                             !.frames = qin.frames + 1]
  /\ UNCHANGED <<useTriangles, stack, obs, walk, img, px, rend, scene>>

NextW ==
  \/ LoopTest
  \/ PollResize
  \/ PollClose
  \/ PollReturn
  \/ StateCalls
  \/ DispatchCompute
  \/ MemoryBarrier
  \/ DrawScreenQuad
  \/ SwapBuffers

SpecWindow == InitW /\ [][NextW]_vars

\* ------------------------------------- reflection and refraction weights
\* a reflection that removes the normal component once
MirrorProjected(dir, normal) == VSub(dir, VScale(normal, Dot(normal, dir)))

\* _ray.dir - normal * 2 * normal.Dot(_ray.dir)
Mirror(dir, normal) ==
  VSub(dir, VScale(VScale(normal, R(2)), Dot(normal, dir)))

\* unit vectors with rational coordinates
Units ==
  Axes \cup
  { Vector(Frac(3 * sa, 5), Frac(4 * sb, 5), R(0)) : sa, sb \in {0 - 1, 1} } \cup
  { Vector(R(0), Frac(4 * sa, 5), Frac(3 * sb, 5)) : sa, sb \in {0 - 1, 1} }

\* _ray.dir.Dot(nl) from normal incidence (-1) to grazing (0); leaving the
\* glass, -7/9 and -3/4 have cos2t = 1/9 and 1/64, the others are totally
\* reflected
Incidences == {R(0 - 1), Frac(0 - 7, 9), Frac(0 - 3, 4), Frac(0 - 1, 2), R(0)}

OpticsInputs ==
  [kind : {"refract"}, into : BOOLEAN, ddn : Incidences] \cup
  [kind : {"mirror"}, dir : Units, normal : Units]

InitO ==
  /\ useTriangles = FALSE
  /\ stack = <<>>
  /\ obs = NoObs
  /\ qin \in OpticsInputs
  /\ qout = <<>>
  /\ walk = NoWalk
  /\ img = <<>>
  /\ px = NoPx
  /\ rend = NoRend
  /\ scene = SceneTables

\* the reflected direction of the SPEC branch
MirrorDirection ==
  /\ qout = <<>>
  /\ qin.kind = "mirror"
  /\ qout' = <<[R |-> Mirror(qin.dir, qin.normal)]>>
  /\ UNCHANGED <<useTriangles, stack, obs, qin, walk, img, px, rend, scene>>

\* the REFR branch from cos2t to the scaling factors
FresnelWeights ==
  /\ qout = <<>>
  /\ qin.kind = "refract"
  /\ LET cos2t == Cos2t(qin.into, qin.ddn)
         Re == Reflectance(CosTerm(qin.into, qin.ddn))
     IN  qout' = IF RLe(cos2t, R(0)) THEN <<[tir |-> TRUE]>>
                 ELSE <<[tir |-> FALSE, Re |-> Re, Tr |-> Transmittance(Re),
                         P |-> SelectP(Re), RP |-> ScaleRP(Re), TP |-> ScaleTP(Re)]>>
  /\ UNCHANGED <<useTriangles, stack, obs, qin, walk, img, px, rend, scene>>

NextO ==
  \/ MirrorDirection
  \/ FresnelWeights

SpecOptics == InitO /\ [][NextO]_vars

\* ============================================================== properties
Black == <<R(0), R(0), R(0)>>
Caller == stack[Len(stack) - 1]
NonNeg(v) == \A c \in 1..3 : RLe(R(0), v[c])
VGe(a, b) == \A c \in 1..3 : RLe(b[c], a[c])
Frames == {stack[k] : k \in 1..Len(stack)}

\* C1: at a diffuse hit whose shadow ray is blocked by a primitive of the
\* active scene lying between the hit point and the light sphere, the
\* direct-light term e of that Radiance call is zero.
C1_OccludedGivesNoDirectLight ==
  (obs.step = "diffuse" /\ obs.blocked) => Caller.e = Black

\* C2: a ray whose nearest hit is the light source, evaluated with
\* includeEmission = 1 at a depth not above the maximum bounce count, has the
\* light source reported as its hit primitive and returns a colour that
\* contains the light's emission with factor 1.
C2_LightHitReturnsEmission ==
  \A f \in Frames :
    (f.lightFirst /\ f.E = 1 /\ f.depth <= maxDepth) =>
      /\ f.pc = "hit" => f.emission = LightSource.emission
      /\ f.pc = "ret" => VGe(f.val, LightSource.emission)

\* C3: every channel of every colour returned by Radiance is >= 0, and the
\* direct-light term added at a diffuse hit is never negative.
C3_NonNegativeRadiance ==
  \A f \in Frames :
    /\ f.pc = "ret" => NonNeg(f.val)
    /\ NonNeg(f.e)

\* C4: for a ray that misses every primitive of the active scene Radiance
\* returns exactly (0,0,0), whatever the depth and includeEmission, having
\* drawn no random number and made no recursive call.
C4_MissReturnsBackground ==
  (obs.step = "intersect" /\ obs.missed) =>
    /\ Top.pc = "ret"
    /\ Top.via = "miss"
    /\ Top.val = Black
    /\ obs.draws = 0
    /\ obs.calls = 0

C4_Witness ==
  /\ obs.step = "intersect"
  /\ obs.missed
  /\ Top.pc = "ret"
  /\ Top.depth > maxDepth
  /\ Top.E = 0

\* C5: Russian roulette is engaged exactly when the incremented depth
\* exceeds 5 or the maximum albedo channel p is zero. Engaged, it draws one
\* number: below p the path goes on with the albedo times 1/p, otherwise
\* Radiance returns emission * includeEmission without a recursive call.
\* Not engaged, the path goes on with the albedo unchanged and no draw.
\* With p = 0 the call never goes on and 1/p is never evaluated.
C5_RussianRoulette ==
  obs.step = "roulette" =>
    /\ obs.p = Max(obs.colIn)
    /\ obs.engaged <=> (Top.depth > maxDepth \/ obs.p = R(0))
    /\ obs.calls = 0
    /\ obs.engaged =>
         /\ obs.draws = 1
         /\ IF RLt(obs.rnd, obs.p)
            THEN /\ Top.pc = "shade"
                 /\ obs.scaled
                 /\ Top.col = VScale(obs.colIn, RDiv(R(1), obs.p))
            ELSE /\ Top.pc = "ret"
                 /\ ~obs.scaled
                 /\ Top.val = VScale(Top.emission, R(Top.E))
    /\ ~obs.engaged =>
         /\ obs.draws = 0
         /\ ~obs.scaled
         /\ Top.pc = "shade"
         /\ Top.col = obs.colIn
    /\ obs.scaled => obs.p # R(0)
    /\ obs.p = R(0) => Top.pc = "ret"

C5_Witness ==
  /\ obs.step = "roulette"
  /\ obs.engaged
  /\ Top.depth > maxDepth
  /\ obs.scaled
  /\ obs.colIn = Red
  /\ Top.col = Vector(R(1), Frac(1, 3), Frac(1, 3))

\* a step that took a draw whose value the code compares
Drew ==
  \/ obs.step = "roulette" /\ obs.engaged
  \/ obs.step = "refract" /\ obs.draws = 1

\* C6 as stated: every number normRand produces lies in [0,1), the value 1
\* is never returned, and a surface with p = 1 always survives the roulette.
C6_HalfOpenDraws ==
  Drew =>
    /\ RLe(R(0), obs.rnd)
    /\ RLt(obs.rnd, R(1))
    /\ (obs.step = "roulette" /\ obs.p = R(1)) => Top.pc = "shade"

\* C6 as amended: every number normRand produces lies in the closed
\* interval [0,1]; 1 is returned for rand() = RAND_MAX, and a surface with
\* p = 1 survives the roulette exactly when the draw is not 1.
C6_ClosedDraws ==
  Drew =>
    /\ RLe(R(0), obs.rnd)
    /\ RLe(obs.rnd, R(1))
    /\ (obs.step = "roulette" /\ obs.p = R(1)) =>
         (Top.pc = "shade" <=> obs.rnd # R(1))

C6_Witness ==
  /\ obs.step = "roulette"
  /\ obs.engaged
  /\ obs.p = R(1)
  /\ obs.rnd = R(1)
  /\ Top.pc = "ret"

\* C7: Render calls Radiance with depth 0 and includeEmission = 1; the call
\* made from a Diffuse hit passes includeEmission = 0; every call made from a
\* Specular or Refractive hit (reflection, total internal reflection, both
\* branches, either roulette branch) passes 1. So includeEmission is 0
\* exactly when the previous bounce was diffuse.
C7_IncludeEmissionRule ==
  /\ obs.step = "render" => (Top.depth = 0 /\ Top.E = 1 /\ Top.pc = "enter")
  /\ \A f \in Frames : (f.pc = "enter" /\ f.depth = 0) => f.E = 1
  /\ \A k \in 2..Len(stack) :
       /\ stack[k - 1].pc \in
            {"DIFF", "SPEC", "TIR", "BOTH1", "BOTH2", "REFL", "TRANS"}
       /\ stack[k - 1].pc = "DIFF" <=> stack[k - 1].refl = "DIFF"
       /\ stack[k - 1].pc = "SPEC" <=> stack[k - 1].refl = "SPEC"
       /\ stack[k - 1].refl = "DIFF" => stack[k].E = 0
       /\ stack[k - 1].refl \in {"SPEC", "REFR"} => stack[k].E = 1

C7_Witness ==
  /\ Len(stack) >= 2
  /\ Caller.pc = "TRANS"
  /\ Caller.E = 0
  /\ Top.E = 1

\* C8: at a Refractive hit without total internal reflection, hit number 1,
\* 2 and 3 of a path (counted from the camera ray) follow both the reflected
\* and the refracted branch; only deeper hits pick one branch by roulette.
C8_BothBranchesFirstThreeHits ==
  \A f \in Frames :
    (f.refl = "REFR" /\ f.pc \in {"BOTH1", "BOTH2", "REFL", "TRANS"}) =>
      (f.pc \in {"BOTH1", "BOTH2"} <=> f.depth <= 3)


\* C9: every Radiance evaluation eventually returns: with fair roulette
\* draws the walk of its call tree reaches a scene miss or a roulette kill on
\* every path and comes back out of the outermost call; the depth itself is
\* not bounded by the maximum bounce count.
C9_RadianceReturns == <>(walk.pc = "done")

C9_Witness ==
  /\ walk.pc = "done"
  /\ walk.via = "kill"
  /\ walk.depth > maxDepth

\* C10: the scene query returns true iff some primitive reports a distance d
\* with 0 < d < 1e20; then t is the least such distance and id the lowest
\* index of a primitive attaining it; when it returns false id is unchanged.
ValidHits == {k \in 1..Len(qin.ds) : FGt(qin.ds[k], 0) /\ FLt(qin.ds[k], tInf)}

C10_NearestHit ==
  qout # <<>> =>
    LET r == qout[1]
    IN /\ r.found <=> ValidHits # {}
       /\ r.found =>
            /\ r.id + 1 \in ValidHits
            /\ qin.ds[r.id + 1] = r.t
            /\ \A k \in ValidHits : r.t <= qin.ds[k]
            /\ \A k \in ValidHits : qin.ds[k] = r.t => r.id + 1 <= k
       /\ ~r.found => r.id = qin.id

C10_Witness ==
  /\ qout # <<>>
  /\ qout[1].found
  /\ qout[1].id # qin.id
  /\ \E k \in ValidHits : k > qout[1].id + 1 /\ qin.ds[k] = qout[1].t
  /\ \E k \in 1..Len(qin.ds) : qin.ds[k] = NaN


\* the point of the ray at parameter t lies on the sphere
OnSphere(t) ==
  LET d == VSub(VAdd(qin.ray.org, VScale(qin.ray.dir, t)), qin.center)
  IN  Dot(d, d) = RMul(qin.radius, qin.radius)
\* the parameters of the grid at which the ray meets the sphere
RootsOnRay == {t \in {HalfEps(k) : k \in (0 - 2 * MaxB)..(2 * MaxB)} : OnSphere(t)}
RootsBeyondEps == {t \in RootsOnRay : RLt(eps, t)}
OriginInside ==
  LET c2o == VSub(qin.center, qin.ray.org)
  IN  RLt(Dot(c2o, c2o), RMul(qin.radius, qin.radius))
OriginOutside ==
  LET c2o == VSub(qin.center, qin.ray.org)
  IN  RLt(RMul(qin.radius, qin.radius), Dot(c2o, c2o))
\* |C - O| of a ray aimed at the centre along its direction
CentreDistance == Dot(VSub(qin.center, qin.ray.org), qin.ray.dir)
AimedAtCentre ==
  /\ VSub(qin.center, qin.ray.org) = VScale(qin.ray.dir, CentreDistance)
  /\ RLt(R(0), CentreDistance)

\* what both readings of C11 share: the result is 0 or above eps; it is 0
\* when the ray has no root above eps (negative discriminant included),
\* and otherwise it is the smallest root exceeding eps.
C11_SmallestRootBeyondEps ==
  LET t == qout[1]
  IN  /\ t = R(0) \/ RLt(eps, t)
      /\ t = R(0) <=> RootsBeyondEps = {}
      /\ t # R(0) => (t \in RootsBeyondEps /\ \A r \in RootsBeyondEps : RLe(t, r))

\* C11 as stated: Sphere::Intersect returns 0 for a negative discriminant,
\* else the smaller root if it exceeds eps, else the larger root if it
\* exceeds eps, else 0; and for a ray origin inside the sphere the result is
\* the exit distance.
C11_InsideGivesExit ==
  qout # <<>> =>
    /\ C11_SmallestRootBeyondEps
    /\ OriginInside =>
         (RLt(R(0), qout[1]) /\ OnSphere(qout[1]))

\* C11 as amended: the same, and for a ray origin inside the sphere the
\* result is the exit distance when that exceeds eps and 0 when it does not.
C11_InsideGivesExitBeyondEps ==
  qout # <<>> =>
    /\ C11_SmallestRootBeyondEps
    /\ OriginInside =>
         \E exit \in RootsOnRay :
           /\ RLt(R(0), exit)
           /\ qout[1] = IF RLt(eps, exit) THEN exit ELSE R(0)

C11_Witness ==
  /\ qout # <<>>
  /\ OriginInside
  /\ qout[1] = R(0)
  /\ \E exit \in RootsOnRay : RLt(R(0), exit)

\* C12 as stated: for a ray whose origin lies outside the sphere and whose
\* unit direction points exactly at the centre, Sphere::Intersect returns
\* |C - O| - r, not |C - O| + r and not 0.
C12_EntryPoint ==
  (qout # <<>> /\ OriginOutside /\ AimedAtCentre) =>
    qout[1] = RSub(CentreDistance, qin.radius)

\* C12 as amended: for such a ray Sphere::Intersect returns |C - O| - r when
\* the origin is more than eps away from the surface; within eps of the
\* surface it returns the exit distance |C - O| + r when that exceeds eps.
C12_EntryPointBeyondEps ==
  (qout # <<>> /\ OriginOutside /\ AimedAtCentre) =>
    LET entry == RSub(CentreDistance, qin.radius)
        exit == RAdd(CentreDistance, qin.radius)
    IN  qout[1] = IF RLt(eps, entry) THEN entry
                  ELSE IF RLt(eps, exit) THEN exit ELSE R(0)

C12_Witness ==
  /\ qout # <<>>
  /\ OriginOutside
  /\ AimedAtCentre
  /\ ~RLt(eps, RSub(CentreDistance, qin.radius))
  /\ qout[1] = RAdd(CentreDistance, qin.radius)


\* the plane hit of the ray: its parameter and point, taken with the
\* unnormalised normal edge_a x edge_b
PlaneNormal == Cross(qin.tri.edge_a, qin.tri.edge_b)
HasArea == PlaneNormal # Zero
CrossesPlane == HasArea /\ Dot(qin.ray.dir, PlaneNormal) # R(0)
PlaneT ==
  RDiv(Dot(VSub(qin.tri.p0, qin.ray.org), PlaneNormal), Dot(qin.ray.dir, PlaneNormal))
PlaneQ == VAdd(qin.ray.org, VScale(qin.ray.dir, PlaneT))
\* the barycentric coordinates of PlaneQ, solved in the plane itself:
\* q - p0 = l1 edge_a + l2 edge_b, l0 = 1 - l1 - l2
Bary ==
  LET a == qin.tri.edge_a
      b == qin.tri.edge_b
      r == VSub(PlaneQ, qin.tri.p0)
      g == RSub(RMul(Dot(a, a), Dot(b, b)), RMul(Dot(a, b), Dot(a, b)))
      l1 == RDiv(RSub(RMul(Dot(r, a), Dot(b, b)), RMul(Dot(r, b), Dot(a, b))), g)
      l2 == RDiv(RSub(RMul(Dot(r, b), Dot(a, a)), RMul(Dot(r, a), Dot(a, b))), g)
  IN  <<RSub(RSub(R(1), l1), l2), l1, l2>>
InUnit(x) == RLe(R(0), x) /\ RLe(x, R(1))
BaryInside == \A k \in 1..3 : InUnit(Bary[k])

\* C13: for a ray whose plane hit point q has t > eps, Triangle::Intersect
\* returns t only if the barycentric coordinates of q all lie in [0,1] and
\* returns 0 whenever q lies strictly outside the triangle; q = p0, p1, p2
\* have the coordinates (1,0,0), (0,1,0), (0,0,1) and are accepted.
C13_BarycentricContainment ==
  (qout # <<>> /\ CrossesPlane /\ RLt(eps, PlaneT)) =>
    /\ qout[1] # R(0) => (qout[1] = PlaneT /\ BaryInside)
    /\ ~BaryInside => qout[1] = R(0)
    /\ PlaneQ \in {qin.tri.p0, qin.tri.p1, qin.tri.p2} => qout[1] = PlaneT


\* C19: the scene is read-only during rendering: no step of Radiance, with
\* the scene queries and material reads it makes, changes a field of an
\* element of spheres, triangles or LightSource, or the length of a list.
C19_SceneReadOnly ==
  /\ scene.spheres = spheres
  /\ scene.triangles = triangles
  /\ scene.LightSource = LightSource
  /\ Len(scene.spheres) = 8
  /\ Len(scene.triangles) = 22

C19_Witness ==
  /\ obs.step = "return"
  /\ stack # <<>>
  /\ Top.pc = "ret"
  /\ Top.refl = "REFR"
  /\ Top.depth > maxDepth


\* C14: for every pixel the final stored colour is the sum over the 4
\* subpixels of 0.25 * clamp(mean of the nbSamples samples of the subpixel);
\* the clamp is applied to the mean, never to a sample, so every channel of
\* a stored pixel lies in [0, 1] and a subpixel contributes at most 0.25.
Mean(sum) == VScale(sum, Frac(1, nbSamples))
Contribution(sum) == VScale(clamp(Mean(sum)), Frac(1, 4))
RECURSIVE SumContributions(_, _)
SumContributions(raw, k) ==
  IF k = 0 THEN Zero ELSE VAdd(SumContributions(raw, k - 1), Contribution(raw[k]))
InUnitRange(v) == \A c \in 1..3 : RLe(R(0), v[c]) /\ RLe(v[c], R(1))
PixelCell == img[image_index(px.x, px.y) + 1]

C14_ClampedSubpixelMeans ==
  px.pc \in {"sample", "done"} =>
    /\ \A i \in 1..Len(img) : InUnitRange(img[i])
    /\ \A k \in 1..Len(px.raw) :
         \A c \in 1..3 : RLe(Contribution(px.raw[k])[c], Frac(1, 4))
    /\ px.pc = "done" => PixelCell = SumContributions(px.raw, 4)

\* a finished pixel whose first subpixel has a mean outside [0, 1] (one
\* sample (3, 1/2, -1), one black) and whose last subpixel is saturated
C14_Witness ==
  /\ px.pc = "done"
  /\ Len(px.raw) = 4
  /\ px.raw[1] = Vector(R(3), Frac(1, 2), R(0 - 1))
  /\ px.raw[4] = Vector(R(1), R(1), R(1))


\* C15: during Render each cell of the image buffer is written exactly
\* once, and that write is made only after all 4 subpixels of the pixel
\* have been summed and averaged; no partial value is stored.
C15_WrittenOnceAfterAllSubpixels ==
  /\ Len(px.writes) <= 1
  /\ \A k \in 1..Len(px.writes) : px.writes[k].ended = 4
  /\ px.pc = "done" => Len(px.writes) = 1

\* C15 (as the code does it): the cell of a pixel is reset once by setColor
\* before any sample is taken and then added to once per subpixel, each
\* addColor made after all nbSamples samples of that subpixel have been
\* accumulated and clamped; after the k-th addColor the cell holds the sum
\* of the first k subpixel contributions, and no other cell is written.
Adds == Len(px.writes) - 1
C15_ResetThenOneAddPerSubpixel ==
  /\ Len(px.writes) <= 5
  /\ \A k \in 1..Len(px.writes) :
       /\ px.writes[k].index = image_index(px.x, px.y)
       /\ px.writes[k].op = (IF k = 1 THEN "set" ELSE "add")
       /\ px.writes[k].ended = k - 1
  /\ \A i \in 1..Len(img) : i # image_index(px.x, px.y) + 1 => img[i] = Zero
  /\ px.pc = "sample" =>
       /\ Len(px.raw) = Adds + 1
       /\ PixelCell = SumContributions(px.raw, Adds)
  /\ px.pc = "done" =>
       /\ Adds = 4
       /\ PixelCell = SumContributions(px.raw, 4)

\* the cell holds a partial sum: two subpixels stored, two to come
C15_Witness ==
  /\ px.pc = "sample"
  /\ Adds = 2
  /\ PixelCell = Vector(Frac(1, 2), Frac(1, 8), R(0))


\* C16: under any interleaving of the row workers of Render, the inner
\* column loop run in parallel or not, no slot of the image buffer is
\* written or read-modified by more than one worker: every (x, y) is
\* processed by exactly one loop iteration and distinct pixels have
\* distinct buffer indices.
Pixels == (0..(width - 1)) \X (0..(height - 1))
C16_OneWorkerPerSlot ==
  rend.pc \in {"render", "done"} =>
    /\ \A i \in 1..(width * height) :
         /\ Cardinality(rend.writers[i]) <= 1
         /\ rend.iterations[i] <= 1
         /\ rend.pc = "done" => rend.iterations[i] = 1 /\ Len(img[i]) = 1
    /\ \A p \in Pixels : Slot(p[1], p[2]) \in 1..(width * height)
    /\ \A p, r \in Pixels : p # r => Slot(p[1], p[2]) # Slot(r[1], r[2])

\* two rows are in progress at once, one of them with both threads of its
\* inner team having stored a pixel
C16_Witness ==
  /\ rend.pc = "render"
  /\ rend.nested
  /\ rend.th["A"].pc = "column"
  /\ rend.th["B"].pc = "column"
  /\ rend.th["A"].y # rend.th["B"].y
  /\ rend.writers[Slot(0, rend.th["A"].y)] = {"A"}
  /\ rend.writers[Slot(width - 1, rend.th["A"].y)] = {"a"}
  /\ rend.writers[Slot(0, rend.th["B"].y)] = {"B"}


\* C17: the random number generator state used while rendering a row is
\* exclusively owned by the worker processing that row: no generator state
\* that one worker seeds (srand) or advances (rand) is read or written by
\* another worker.
C17_GeneratorOwnedByOneWorker ==
  rend.pc \in {"render", "done"} =>
    \A g \in Generators : Cardinality(rend.users[g]) <= 1

\* C18: the random numbers consumed while rendering row y, and hence the
\* colours stored for row y, are a function of y alone (seed y * y * y):
\* the pixel in column x of row y is computed from the draws that follow
\* those of columns 0..x-1 in the stream seeded with y * y * y, for every
\* number of workers and every interleaving.
C18_RowReproducible ==
  rend.pc \in {"render", "done"} =>
    \A p \in Pixels :
      \A k \in 1..Len(img[Slot(p[1], p[2])]) :
        img[Slot(p[1], p[2])][k] = <<Seed(p[2]), p[1]>>


\* C20: Image::Save writes the header (P3, width height, 255) followed by
\* exactly width * height RGB triplets, and every channel value it writes is
\* an integer in [0, 255] whatever the stored value (below 0 and above 1
\* included): toInteger maps x <= 0 to 0, x >= 1 to 255 and is
\* non-decreasing in x.
C20_SaveFormatAndRange ==
  /\ qin.pc \in {"pixels", "closed"} =>
       /\ Len(qout) = 4 + 3 * qin.i
       /\ SubSeq(qout, 1, 4) = <<"P3", width, height, 255>>
       /\ \A k \in 5..Len(qout) : qout[k] \in 0..255
       /\ \A k \in 1..qin.i : \A c \in 1..3 :
            qout[4 + 3 * (k - 1) + c] = toInteger(img[k][c])
  /\ qin.pc = "closed" => Len(qout) = 4 + 3 * (width * height)
  /\ \A x \in Channels :
       /\ toInteger(x) \in 0..255
       /\ RLe(x, R(0)) => toInteger(x) = 0
       /\ RLe(R(1), x) => toInteger(x) = 255
  /\ \A x, y \in Channels : RLe(x, y) => toInteger(x) <= toInteger(y)

\* a closed file in which a value below 0, values inside (0, 1) and a value
\* above 1 were written
C20_Witness ==
  /\ qin.pc = "closed"
  /\ img[1] = Vector(Frac(0 - 1, 2), Frac(1, 4), R(2))
  /\ SubSeq(qout, 5, 7) = <<0, 136, 255>>
  /\ img[width * height] = Vector(Frac(1, 2), Frac(5, 4), Frac(1, 4))
  /\ SubSeq(qout, Len(qout) - 2, Len(qout)) = <<186, 255, 136>>


\* C21: pixel (x, y) is stored at buffer index (height - y - 1) * width + x,
\* which lies in [0, width * height) and is distinct for distinct pixels (a
\* bijection onto the buffer); Save emits the buffer in increasing index
\* order, so row height - 1 is emitted first and x increases within a row.
Emitted(k) == SubSeq(qout, 4 + 3 * k + 1, 4 + 3 * k + 3)
Written(color) == <<toInteger(color[1]), toInteger(color[2]), toInteger(color[3])>>
C21_RowMajorTopDown ==
  /\ \A p \in Pixels :
       /\ image_index(p[1], p[2]) = (height - p[2] - 1) * width + p[1]
       /\ image_index(p[1], p[2]) \in 0..(width * height - 1)
  /\ \A p, r \in Pixels : p # r => image_index(p[1], p[2]) # image_index(r[1], r[2])
  /\ \A i \in 0..(width * height - 1) : \E p \in Pixels : image_index(p[1], p[2]) = i
  /\ qin.pc \in {"pixels", "closed"} =>
       \A p \in Pixels :
         LET k == (height - 1 - p[2]) * width + p[1]
         IN  /\ k < qin.i => Emitted(k) = Written(getColor(img, p[1], p[2]))
             /\ k >= qin.i => Len(qout) < 4 + 3 * k + 1

\* a closed file of an image whose top-left and bottom-left pixels differ:
\* the first triplet is the top-left pixel
C21_Witness ==
  /\ qin.pc = "closed"
  /\ getColor(img, 0, height - 1) = Vector(R(0), Frac(3, 4), R(1))
  /\ getColor(img, 0, 0) = Vector(Frac(1, 2), Frac(5, 4), Frac(1, 4))
  /\ Emitted(0) = <<0, 224, 255>>
  /\ Emitted((height - 1) * width) = <<186, 255, 136>>


\* C22: when the output file cannot be opened for writing, Image::Save
\* reports a hard failure and makes no write through the failed file
\* handle.
C22_OpenFailureIsFatal ==
  qin.f = "NULL" =>
    /\ qin.nullCalls = 0
    /\ qin.pc \in {"header", "failed"}


\* C23: the barycentric solve of Triangle::Intersect never uses a singular
\* 2x2 system: for every triangle of non-zero area the axis pair selected
\* by the z-equal / x-equal / y-equal tests has a non-zero determinant.
C23_NonSingularSystem ==
  (qout # <<>> /\ CrossesPlane /\ RLt(eps, PlaneT)) =>
    Determinant(qin.tri, SelectedAxes(qin.tri)[1], SelectedAxes(qin.tri)[2]) # R(0)


\* C24: a ray parallel to a triangle's supporting plane (ray.dir . normal =
\* 0) is rejected: Triangle::Intersect reports no hit (0) for it, and the
\* scene query never selects that triangle for such a ray.
Parallel == HasArea /\ Dot(qin.ray.dir, PlaneNormal) = R(0)
C24_ParallelReturnsZero ==
  (qout # <<>> /\ Parallel) => (qout[1] = R(0) /\ ~qout[2])

\* C24 (as the code does it): for a parallel ray Triangle::Intersect divides
\* by zero; it returns NaN when the origin lies in the plane, 0 when the
\* quotient is -inf, and 0 or +inf when it is +inf. None of these passes
\* d > 0.0 && d < t, so the scene query never selects the triangle.
PlaneSide == Dot(VSub(qin.tri.p0, qin.ray.org), PlaneNormal)
C24_ParallelNeverSelected ==
  (qout # <<>> /\ Parallel) =>
    /\ ~qout[2]
    /\ PlaneSide = R(0) => qout[1] = XNaN
    /\ RLt(PlaneSide, R(0)) => qout[1] = R(0)
    /\ RLt(R(0), PlaneSide) => qout[1] \in {R(0), XInf(1)}

\* a parallel ray for which Intersect returns +inf
C24_Witness ==
  /\ qout # <<>>
  /\ Parallel
  /\ qout[1] = XInf(1)
  /\ ~qout[2]

\* a parallel ray in the plane, for which Intersect returns NaN
C24_WitnessInPlane == qout # <<>> /\ Parallel /\ qout[1] = XNaN


\* C25: when one sub-path is selected by roulette, P = 0.25 + 0.5 Re lies in
\* [0.25, 0.75] for every Re in [0, 1] (so neither Re / P nor Tr / (1 - P)
\* divides by zero), Tr = 1 - Re, and P * (Re / P) = Re and
\* (1 - P) * (Tr / (1 - P)) = Tr.
ReGrid == {Frac(k, 8) : k \in 0..8}
Unbiased(Re, Tr, P, RP, TP) ==
  /\ RLe(Frac(1, 4), P) /\ RLe(P, Frac(3, 4))
  /\ Tr = RSub(R(1), Re)
  /\ RMulC(P, RP) = Re
  /\ RMulC(RSub(R(1), P), TP) = Tr
Refracted == qout # <<>> /\ qin.kind = "refract" /\ ~qout[1].tir
C25_UnbiasedRoulette ==
  /\ Refracted =>
       /\ RLe(R(0), qout[1].Re) /\ RLe(qout[1].Re, R(1))
       /\ Unbiased(qout[1].Re, qout[1].Tr, qout[1].P, qout[1].RP, qout[1].TP)
  /\ \A Re \in ReGrid :
       Unbiased(Re, Transmittance(Re), SelectP(Re), ScaleRP(Re), ScaleTP(Re))

\* a ray leaving the glass close to the critical angle: c = 7/8
C25_Witness ==
  /\ Refracted
  /\ ~qin.into
  /\ qout[1].Re = Frac(54517, 102400)
  /\ qout[1].P = Frac(105717, 204800)


\* C26: at a Specular hit the outgoing direction R = D - 2 (D.N) N is a
\* function of D and N alone and satisfies R.N = -(D.N), with the component
\* of R perpendicular to N equal to that of D, for unit N of either sign
\* (the raw and the flipped normal give the same R).
Perpendicular(v, n) == VSub(v, VScale(n, Dot(v, n)))
Mirrored == qout # <<>> /\ qin.kind = "mirror"
C26_MirrorReflection ==
  Mirrored =>
    LET D == qin.dir
        N == qin.normal
        Rv == qout[1].R
    IN  /\ Dot(Rv, N) = RSub(R(0), Dot(D, N))
        /\ Perpendicular(Rv, N) = Perpendicular(D, N)
        /\ Rv = Mirror(D, VScale(N, R(0 - 1)))
        /\ Dot(Rv, Rv) = R(1)

\* an oblique hit: D = (3/5, -4/5, 0) on N = (0, 1, 0) leaves as (3/5, 4/5, 0)
C26_Witness ==
  /\ Mirrored
  /\ qin.dir = Vector(Frac(3, 5), Frac(0 - 4, 5), R(0))
  /\ qin.normal = Vector(R(0), R(1), R(0))
  /\ qout[1].R = Vector(Frac(3, 5), Frac(4, 5), R(0))

RECURSIVE CfLe(_, _, _, _)
CfLe(a, b, c, d) ==
  IF a \div b # c \div d THEN a \div b < c \div d
  ELSE IF a % b = 0 THEN TRUE
  ELSE IF c % d = 0 THEN FALSE
  ELSE CfLe(d, c % d, b, a % b)
\* x <= y for non-negative rationals, by continued fractions (no products)
RLeNN(x, y) == CfLe(x[1], x[2], y[1], y[2])

\* C27: with nc = 1.0 and nt = 1.5, at normal incidence (entering or
\* leaving) Re = R0 = ((nt - nc) / (nt + nc))^2 = 0.04 and Tr = 0.96; Re
\* grows towards 1 as the incidence approaches grazing; 0.04 <= Re <= 1 for
\* every incidence.
C27_SchlickBoundary ==
  /\ R0 = Frac(1, 25)
  /\ Refracted =>
       /\ RLeNN(Frac(1, 25), qout[1].Re) /\ RLeNN(qout[1].Re, R(1))
       /\ qin.ddn = R(0 - 1) => (qout[1].Re = Frac(1, 25) /\ qout[1].Tr = Frac(24, 25))
       /\ (qin.into /\ qin.ddn = R(0)) => qout[1].Re = R(1)
       /\ \A ddn \in Incidences :
            (RLe(ddn, qin.ddn) /\ RLt(R(0), Cos2t(qin.into, ddn))) =>
              RLeNN(Reflectance(CosTerm(qin.into, ddn)), qout[1].Re)

\* normal incidence from inside the glass
C27_Witness ==
  /\ Refracted
  /\ ~qin.into
  /\ qin.ddn = R(0 - 1)
  /\ qout[1].Re = Frac(1, 25)

\* grazing incidence from outside
C27_WitnessGrazing == Refracted /\ qin.into /\ qin.ddn = R(0) /\ qout[1].Re = R(1)


\* C28: whenever Radiance evaluates spheres.at(id) in the total internal
\* reflection branch, the active set is the sphere scene and id is the index
\* IntersectSpheres returned for this hit; with useTriangles only the
\* Diffuse branch is reachable, so no index into triangles ever indexes
\* spheres.
Fetched(f) == f.pc \notin {"enter", "ret"}
C28_GeometryNotMixed ==
  /\ obs.tir =>
       /\ ~useTriangles
       /\ obs.at \in 0..(Len(scene.spheres) - 1)
       /\ scene.spheres[obs.at + 1].refl = "REFR"
       /\ Len(stack) >= 2 => stack[Len(stack) - 1].id = obs.at
  /\ \A k \in 1..Len(stack) :
       Fetched(stack[k]) =>
         /\ stack[k].id \in 0..(Len(Scene) - 1)
         /\ Scene[stack[k].id + 1].refl = stack[k].refl
         /\ Scene[stack[k].id + 1].emission = stack[k].emission
         /\ useTriangles =>
              /\ stack[k].refl = "DIFF"
              /\ stack[k].pc \in {"hit", "shade", "DIFF"}

\* the glass sphere, index 7, read in the total internal reflection branch
C28_Witness ==
  /\ obs.tir
  /\ ~useTriangles
  /\ obs.at = 7
  /\ Len(stack) >= 2
  /\ stack[Len(stack) - 1].pc = "TIR"

\* a diffuse bounce in the triangle scene off a triangle beyond index 7
C28_WitnessTriangles ==
  /\ useTriangles
  /\ Len(stack) >= 2
  /\ stack[Len(stack) - 1].pc = "DIFF"
  /\ stack[Len(stack) - 1].id >= 8


\* C29: Render receives its Image by value, yet the copy shares the
\* caller's pixel array: once the loops of Render are over, Render returns,
\* main's img holds at every (x, y) the colour Render accumulated, Save
\* writes those colours, and exactly one pixel array exists throughout.
RenderOver == qin.pc \in {"returned", "undefined", "saved"}
HoldsAccumulated ==
  \A k \in 1..Len(px.acc) :
    getColor(img[qin.img.pixels], px.acc[k][1], px.acc[k][2]) = px.acc[k][3]
C29_CopySharesPixels ==
  /\ Len(img) <= 1
  /\ qin.pc \in {"render", "returned", "undefined", "saved"} =>
       qin._img.pixels = qin.img.pixels
  /\ RenderOver => (Len(px.acc) = width * height /\ HoldsAccumulated)
  /\ qin.pc = "saved" => qout = img[qin.img.pixels]

\* Render is over and control did not come back to main
C29_FlowedOff == qin.pc = "undefined" /\ HoldsAccumulated /\ qout = <<>>


\* C30: in the windowed renderer, in every iteration of the main loop and in
\* every resize callback the steps occur in the order compute dispatch,
\* image-access memory barrier, screen-quad draw, buffer swap; the draw never
\* runs between a dispatch and its barrier, and every draw is preceded by a
\* dispatch in the same frame.
FrameOrder == <<"dispatch", "barrier", "draw", "swap">>
GLSteps(log) == SelectSeq(log, LAMBDA c : c # "state")
IsPrefix(a, b) == Len(a) <= Len(b) /\ a = SubSeq(b, 1, Len(a))
C30_FrameOrder ==
  /\ IsPrefix(GLSteps(qout), FrameOrder)
  /\ (qout # <<>> /\ qout[Len(qout)] = "swap") => GLSteps(qout) = FrameOrder
  /\ img.read[2]
  /\ (qout # <<>> /\ qout[Len(qout)] = "draw") =>
       (img.coherent /\ img.read = <<img.gen, TRUE>> /\ img.gen > 0)
  /\ ~img.coherent => (qout # <<>> /\ qout[Len(qout)] = "dispatch")

\* the quad draw of a resize callback that interrupted the second iteration
C30_Witness ==
  /\ qin.ctx = "resize"
  /\ qin.frames = 1
  /\ qout # <<>> /\ qout[Len(qout)] = "draw"
  /\ img.read = <<2, TRUE>>

\* the swap that ends an iteration of the main loop
C30_WitnessMain ==
  /\ qin.phase = "test"
  /\ qin.frames = 1
  /\ qout = <<"state", "state", "dispatch", "barrier", "state", "draw", "state", "swap">>

====
